---- MODULE Spec2Model ----
(***************************************************************************)
(* Storage layer of the Kickstarter creator platform: the three bulk       *)
(* Merger functions of supabase/functions/bulk_upsert.sql                  *)
(* (upsert_creators_bulk, upsert_projects_bulk,                            *)
(* sync_creator_outreach_bulk), the tables they write, the outreach        *)
(* endpoint of the website (POST /api/creators/outreach), and the          *)
(* contact-extraction pipeline that feeds sync_creator_outreach_bulk: its  *)
(* shared tables (firecrawl_blocked_domains with firecrawl_block_domain,   *)
(* firecrawl_accounts, pipeline_state) and its runner (selector,           *)
(* dispatcher, workers, credential pool).                                  *)
(*                                                                         *)
(* SQL values are modelled as optional values: NULL is the empty tuple and *)
(* a non-null value v is the one-element tuple <<v>>.  JSON payloads are   *)
(* functions from the keys they carry to the text the ->> operator yields. *)
(* Statements are atomic; a PL/pgSQL function is a sequence of statements  *)
(* that other sessions may interleave with (READ COMMITTED).               *)
(***************************************************************************)
EXTENDS Integers, Sequences, FiniteSets, TLC

VARIABLES
    creators,           \* table creators: id -> row
    projects,           \* table projects: id -> row
    creator_outreach,   \* table creator_outreach: creator_id -> row
    clock,              \* database time: the number of transactions started
    call,               \* the Merger call in progress (locals of the function)
    req,                \* the outreach endpoint request in progress
    workers,            \* contact-extraction workers: what each has read
    merged,             \* per creator: the worker results merged so far, and
                        \* whether any other payload was merged (history)
    firecrawl_blocked_domains,  \* table: domain -> row
    firecrawl_accounts,         \* table: id -> row
    pipeline_state,             \* table: id -> row
    run,                        \* the contact-extraction run in progress
    exportDialog,               \* website: the export dialog of a list page
    listPage,                   \* website: the list of a list page and its requests
    statusView                  \* website: a view showing creator 1's outreach status

vars == <<creators, projects, creator_outreach, clock, call, req, workers, merged,
          firecrawl_blocked_domains, firecrawl_accounts, pipeline_state, run,
          exportDialog, listPage, statusView>>

\* The variables of the storage layer and of the extraction pipeline
storage == <<creators, projects, creator_outreach, clock, call, req, workers, merged>>
pipeline == <<firecrawl_blocked_domains, firecrawl_accounts, pipeline_state, run>>

\* The variables of the website's pages
ui == <<exportDialog, listPage, statusView>>

\* The number of transactions a behaviour may start (bounds clock).
MaxClock == 2

-----------------------------------------------------------------------------
(* SQL values and operators *)

NULL == <<>>
V(x) == <<x>>

\* COALESCE(a, b)
Coalesce(a, b) == IF a # NULL THEN a ELSE b

\* NULLIF(a, b)
NullIf(a, b) == IF a = b THEN NULL ELSE a

\* a = b and a != b in SQL's three-valued logic
SqlEq(a, b) == IF a = NULL \/ b = NULL THEN NULL ELSE V(a = b)
SqlNe(a, b) == IF a = NULL \/ b = NULL THEN NULL ELSE V(a # b)

\* NOT a, a OR b in SQL's three-valued logic
SqlNot(a) == IF a = NULL THEN NULL ELSE V(~a[1])
SqlOr(a, b) ==
    IF a = V(TRUE) \/ b = V(TRUE) THEN V(TRUE)
    ELSE IF a = NULL \/ b = NULL THEN NULL
    ELSE V(FALSE)

\* IF cond THEN ...: a NULL condition takes the ELSE branch
IsTrue(a) == a = V(TRUE)

\* JSON null inside a payload
JsonNull == "json:null"

\* payload ->> key: the text of the key, NULL for a missing key or a JSON null
Arrow(j, k) ==
    IF k \in DOMAIN j
    THEN (IF j[k] = JsonNull THEN NULL ELSE V(j[k]))
    ELSE NULL

Digits == <<"0", "1", "2", "3", "4", "5", "6", "7", "8", "9">>

\* n::TEXT and text::INTEGER / ::BIGINT for the one-digit numbers of the model
IntToText(n) == Digits[n + 1]
ValidInt(t) == t = NULL \/ \E n \in 0..9 : Digits[n + 1] = t[1]
CastInt(t) == IF t = NULL THEN NULL ELSE V(CHOOSE n \in 0..9 : Digits[n + 1] = t[1])

\* text::BOOLEAN
ValidBool(t) == t = NULL \/ t[1] \in {"true", "false"}
CastBool(t) == IF t = NULL THEN NULL ELSE V(t[1] = "true")

\* text::TIMESTAMP WITH TIME ZONE: the instant (as yyyymmdd) an ISO text denotes
Ts1 == "2024-01-01T00:00:00Z"
Ts2 == "2024-02-02T00:00:00+00:00"
Instant(text) == IF text = Ts1 THEN 20240101 ELSE 20240202
ValidTimestamp(t) == t = NULL \/ t[1] \in {Ts1, Ts2}
CastTimestamp(t) == IF t = NULL THEN NULL ELSE V(Instant(t[1]))

\* SQLSTATE of the errors the statements can raise
NoError == "00000"
InvalidText == "22P02"      \* invalid_text_representation (bad cast)
NotNullViolation == "23502"
ForeignKeyViolation == "23503"
UniqueViolation == "23505"

-----------------------------------------------------------------------------
(* Table creator_outreach *)

\* The generated column has_any_contact
has_any_contact(row) ==
    (row.email # NULL) \/ Coalesce(row.has_contact_form, V(FALSE))[1]

\* A row as stored: the generated column is computed on every write
Stored(row) == [row EXCEPT !.has_any_contact = V(has_any_contact(row))]

\* The column defaults of creator_outreach
OutreachDefaults(now) ==
    [ outreach_status       |-> V("not_contacted"),
      has_instagram         |-> V(FALSE),
      has_any_contact       |-> V(FALSE),
      email                 |-> NULL,
      email_source_url      |-> NULL,
      has_contact_form      |-> NULL,
      contact_form_url      |-> NULL,
      last_contact_check_at |-> NULL,
      contact_status        |-> V("not_checked"),
      contact_error         |-> NULL,
      contact_attempts      |-> V(0),
      site_hash             |-> NULL,
      first_contacted_at    |-> NULL,
      last_contacted_at     |-> NULL,
      response_received_at  |-> NULL,
      notes                 |-> NULL,
      tags                  |-> NULL,
      priority              |-> V(0),
      follow_up_date        |-> NULL,
      created_at            |-> V(now),
      updated_at            |-> V(now) ]

\* Trigger set_creator_outreach_updated_at (BEFORE UPDATE)
update_updated_at_column(new, now) == [new EXCEPT !.updated_at = V(now)]


-----------------------------------------------------------------------------
(* The database as an argument: T = [creators, projects, creator_outreach] *)

Tables ==
    [ creators |-> creators, projects |-> projects,
      creator_outreach |-> creator_outreach ]

\* f with the row of key k inserted or replaced
Put(f, k, row) == [x \in DOMAIN f \cup {k} |-> IF x = k THEN row ELSE f[x]]

-----------------------------------------------------------------------------
(* sync_creator_outreach_bulk: the statements of one loop iteration *)

\* The VALUES list of the INSERT (the row proposed for insertion, EXCLUDED)
sync_values(outreach, now) ==
    [ OutreachDefaults(now) EXCEPT
      !.has_instagram = Coalesce(CastBool(Arrow(outreach, "has_instagram")), V(FALSE)),
      !.outreach_status = Coalesce(Arrow(outreach, "outreach_status"), V("not_contacted")),
      !.first_contacted_at =
          CastTimestamp(NullIf(Arrow(outreach, "first_contacted_at"), V(""))),
      !.last_contacted_at =
          CastTimestamp(NullIf(Arrow(outreach, "last_contacted_at"), V(""))),
      !.response_received_at =
          CastTimestamp(NullIf(Arrow(outreach, "response_received_at"), V(""))),
      !.notes = Arrow(outreach, "notes"),
      !.tags = IF "tags" \in DOMAIN outreach THEN V(outreach.tags) ELSE V(<<>>),
      !.email = Arrow(outreach, "email"),
      !.email_source_url = Arrow(outreach, "email_source_url"),
      !.has_contact_form = Coalesce(CastBool(Arrow(outreach, "has_contact_form")), V(FALSE)),
      !.contact_form_url = Arrow(outreach, "contact_form_url"),
      !.last_contact_check_at =
          CastTimestamp(NullIf(Arrow(outreach, "last_contact_check_at"), V(""))),
      !.contact_status = Coalesce(Arrow(outreach, "contact_status"), V("not_checked")),
      !.contact_error = Arrow(outreach, "contact_error"),
      !.contact_attempts = Coalesce(CastInt(Arrow(outreach, "contact_attempts")), V(0)),
      !.site_hash = Arrow(outreach, "site_hash") ]

\* Variant: outreach_status = EXCLUDED.outreach_status, like the other columns
outreach_status_overwrite(old_status, excluded_status) == excluded_status

\* outreach_status = CASE WHEN creator_outreach.outreach_status = 'not_contacted'
\*                        THEN EXCLUDED.outreach_status
\*                        ELSE creator_outreach.outreach_status END
outreach_status_case(old_status, excluded_status) ==
    IF IsTrue(SqlEq(old_status, V("not_contacted")))
    THEN excluded_status
    ELSE old_status

\* Variant: DO UPDATE SET every inserted column = EXCLUDED.column
sync_on_conflict_all_columns(old, excluded, now) ==
    update_updated_at_column(
      [excluded EXCEPT !.priority = old.priority, !.follow_up_date = old.follow_up_date,
                       !.created_at = old.created_at],
      now)

\* ON CONFLICT (creator_id) DO UPDATE SET ..., then the BEFORE UPDATE trigger
sync_on_conflict(old, excluded, now) ==
    update_updated_at_column(
      [ old EXCEPT
        !.has_instagram = excluded.has_instagram,
        !.email = Coalesce(excluded.email, old.email),
        !.email_source_url = Coalesce(excluded.email_source_url, old.email_source_url),
        !.has_contact_form = Coalesce(excluded.has_contact_form, old.has_contact_form),
        !.contact_form_url = Coalesce(excluded.contact_form_url, old.contact_form_url),
        !.last_contact_check_at =
            Coalesce(excluded.last_contact_check_at, old.last_contact_check_at),
        !.contact_status = Coalesce(excluded.contact_status, old.contact_status),
        !.contact_error = Coalesce(excluded.contact_error, old.contact_error),
        !.contact_attempts = Coalesce(excluded.contact_attempts, old.contact_attempts),
        !.site_hash = Coalesce(excluded.site_hash, old.site_hash),
        !.outreach_status =
            outreach_status_case(old.outreach_status, excluded.outreach_status) ],
      now)

\* The error the INSERT raises for a payload, NoError when it goes through
sync_insert_error(T, outreach) ==
    LET id == Arrow(outreach, "creator_id") IN
    IF \/ ~ValidInt(id)
       \/ ~ValidBool(Arrow(outreach, "has_instagram"))
       \/ ~ValidBool(Arrow(outreach, "has_contact_form"))
       \/ ~ValidInt(Arrow(outreach, "contact_attempts"))
       \/ \E k \in {"first_contacted_at", "last_contacted_at",
                    "response_received_at", "last_contact_check_at"} :
              ~ValidTimestamp(NullIf(Arrow(outreach, k), V("")))
    THEN InvalidText
    ELSE IF id = NULL THEN NotNullViolation
    ELSE IF CastInt(id)[1] \notin DOMAIN T.creators THEN ForeignKeyViolation
    ELSE NoError

\* Variant: the row is replaced by the proposed one (no COALESCE with the old row)
sync_insert_replace(T, outreach, now) ==
    LET id == CastInt(Arrow(outreach, "creator_id"))[1]
        excluded == sync_values(outreach, now)
        row == IF id \in DOMAIN T.creator_outreach
               THEN [ excluded EXCEPT
                      !.outreach_status = T.creator_outreach[id].outreach_status,
                      !.created_at = T.creator_outreach[id].created_at ]
               ELSE excluded
    IN  [T EXCEPT !.creator_outreach = Put(@, id, Stored(row))]

\* INSERT INTO creator_outreach ... ON CONFLICT (creator_id) DO UPDATE
sync_insert(T, outreach, now) ==
    LET id == CastInt(Arrow(outreach, "creator_id"))[1]
        excluded == sync_values(outreach, now)
        row == IF id \in DOMAIN T.creator_outreach
               THEN sync_on_conflict(T.creator_outreach[id], excluded, now)
               ELSE excluded
    IN  [T EXCEPT !.creator_outreach = Put(@, id, Stored(row))]

\* SELECT EXISTS(SELECT 1 FROM creator_outreach WHERE creator_id = ...)
sync_exists(T, outreach) ==
    LET id == CastInt(Arrow(outreach, "creator_id")) IN
    V(id # NULL /\ id[1] \in DOMAIN T.creator_outreach)


-----------------------------------------------------------------------------
(* Locals of a Merger call and the bookkeeping of its loop *)

Functions == {"upsert_creators_bulk", "upsert_projects_bulk", "sync_creator_outreach_bulk"}

\* DECLARE ... of the three functions, at the first statement of the loop.
\* start, clean, failed, created, rewritten and worker are history: the
\* tables when the call began, whether no other session has written since,
\* the indexes of the entities that raised, the rows the call inserted /
\* rewrote, and whether the batch is an extraction worker's result.
NewCall(fn, data, T, now) ==
    [ pc |-> IF data = <<>> THEN "done" ELSE "select",
      fn |-> fn, data |-> data, i |-> 1, now |-> now,
      v_inserted |-> 0, v_updated |-> 0, v_total |-> 0, v_errors |-> <<>>,
      v_exists |-> NULL, v_existing_hash |-> NULL,
      start |-> T, clean |-> TRUE, failed |-> {}, created |-> 0, rewritten |-> 0,
      worker |-> FALSE ]

NoCall == NewCall("none", <<>>, [creators |-> <<>>, projects |-> <<>>, creator_outreach |-> <<>>], 0)

\* END LOOP: on to the next array element, or RETURN QUERY after the last one
NextItem(c) ==
    IF c.i < Len(c.data)
    THEN [c EXCEPT !.i = @ + 1, !.pc = "select"]
    ELSE [c EXCEPT !.pc = "done"]

\* Variant: the handler sits outside the loop, the first error ends the call
RaiseAndReturn(c, entry) ==
    [c EXCEPT !.v_errors = Append(@, entry), !.failed = @ \cup {c.i}, !.pc = "done"]

\* EXCEPTION WHEN OTHERS: the block's writes are rolled back, the error is
\* appended to v_errors and the loop goes on
Raise(c, entry) ==
    NextItem([c EXCEPT !.v_errors = Append(@, entry), !.failed = @ \cup {c.i}])

\* IF v_exists THEN v_updated := v_updated + 1 ELSE v_inserted := v_inserted + 1
Count(c, present) ==
    NextItem([ c EXCEPT
               !.v_updated = IF IsTrue(c.v_exists) THEN @ + 1 ELSE @,
               !.v_inserted = IF IsTrue(c.v_exists) THEN @ ELSE @ + 1,
               !.created = IF present THEN @ ELSE @ + 1,
               !.rewritten = IF present THEN @ + 1 ELSE @ ])

\* One statement of sync_creator_outreach_bulk's loop: the EXISTS query when
\* pc = "select", the INSERT ... ON CONFLICT when pc = "insert"
sync_creator_outreach_bulk(c, T) ==
    LET outreach == c.data[c.i]
        id == Arrow(outreach, "creator_id")
        entry(err) == [creator_id |-> id, error |-> err]
    IN  IF c.pc = "select"
        THEN LET c1 == [c EXCEPT !.v_total = @ + 1] IN
             IF ~ValidInt(id)
             THEN [call |-> Raise(c1, entry(InvalidText)), T |-> T]
             ELSE [call |-> [c1 EXCEPT !.v_exists = sync_exists(T, outreach), !.pc = "insert"],
                   T |-> T]
        ELSE LET err == sync_insert_error(T, outreach) IN
             IF err # NoError
             THEN [call |-> Raise(c, entry(err)), T |-> T]
             ELSE [call |-> Count(c, CastInt(id)[1] \in DOMAIN T.creator_outreach),
                   T |-> sync_insert(T, outreach, c.now)]


-----------------------------------------------------------------------------
(* upsert_creators_bulk *)

\* The error the INSERT INTO creators raises, NoError when it goes through
creators_insert_error(T, creator) ==
    LET id == Arrow(creator, "id")
        slug == Arrow(creator, "slug")
    IN  IF ~ValidInt(id) \/ ~ValidBool(Arrow(creator, "is_registered")) THEN InvalidText
        ELSE IF id = NULL \/ Arrow(creator, "name") = NULL THEN NotNullViolation
        ELSE IF /\ slug # NULL
                /\ \E other \in DOMAIN T.creators \ {CastInt(id)[1]} :
                       T.creators[other].slug = slug
             THEN UniqueViolation
        ELSE NoError

\* Variant: data_hash is left out of the column list and the SET list
creators_insert_without_hash(T, creator, now) ==
    LET id == CastInt(Arrow(creator, "id"))[1]
        present == id \in DOMAIN T.creators
        row == [ slug |-> Arrow(creator, "slug"),
                 name |-> Arrow(creator, "name"),
                 is_registered |-> CastBool(Arrow(creator, "is_registered")),
                 data_hash |-> IF present THEN T.creators[id].data_hash ELSE NULL,
                 created_at |-> IF present THEN T.creators[id].created_at ELSE V(now),
                 updated_at |-> V(now) ]
    IN  [T EXCEPT !.creators = Put(@, id, row)]

\* INSERT INTO creators ... ON CONFLICT (id) DO UPDATE SET col = EXCLUDED.col
creators_insert(T, creator, now) ==
    LET id == CastInt(Arrow(creator, "id"))[1]
        present == id \in DOMAIN T.creators
        row == [ slug |-> Arrow(creator, "slug"),
                 name |-> Arrow(creator, "name"),
                 is_registered |-> CastBool(Arrow(creator, "is_registered")),
                 data_hash |-> Arrow(creator, "data_hash"),
                 created_at |-> IF present THEN T.creators[id].created_at ELSE V(now),
                 updated_at |-> V(now) ]
    IN  [T EXCEPT !.creators = Put(@, id, row)]

\* Variant: no change detection, every entity is written
hash_guard_always(v_exists, v_existing_hash, v_data_hash) == TRUE

\* IF NOT v_exists OR v_existing_hash IS NULL OR v_existing_hash != v_data_hash
hash_guard(v_exists, v_existing_hash, v_data_hash) ==
    IsTrue(SqlOr(SqlOr(SqlNot(v_exists), V(v_existing_hash = NULL)),
                 SqlNe(v_existing_hash, v_data_hash)))

\* One statement of upsert_creators_bulk's loop: the SELECT ... INTO and the
\* IF when pc = "select", the INSERT ... ON CONFLICT when pc = "insert"
upsert_creators_bulk(c, T) ==
    LET creator == c.data[c.i]
        id == Arrow(creator, "id")
        v_data_hash == Arrow(creator, "data_hash")
        entry(err) == [creator_id |-> id, error |-> err]
    IN  IF c.pc = "select"
        THEN LET c1 == [c EXCEPT !.v_total = @ + 1]
                 found == id # NULL /\ ValidInt(id) /\ CastInt(id)[1] \in DOMAIN T.creators
                 \* no row selected: both INTO targets are set to NULL
                 v_exists == IF found THEN V(TRUE) ELSE NULL
                 v_existing_hash == IF found THEN T.creators[CastInt(id)[1]].data_hash ELSE NULL
                 c2 == [c1 EXCEPT !.v_exists = v_exists, !.v_existing_hash = v_existing_hash]
             IN  IF ~ValidInt(id)
                 THEN [call |-> Raise(c1, entry(InvalidText)), T |-> T]
                 ELSE IF hash_guard(v_exists, v_existing_hash, v_data_hash)
                 THEN [call |-> [c2 EXCEPT !.pc = "insert"], T |-> T]
                 ELSE [call |-> NextItem(c2), T |-> T]
        ELSE LET err == creators_insert_error(T, creator) IN
             IF err # NoError
             THEN [call |-> Raise(c, entry(err)), T |-> T]
             ELSE [call |-> Count(c, CastInt(id)[1] \in DOMAIN T.creators),
                   T |-> creators_insert(T, creator, c.now)]

-----------------------------------------------------------------------------
(* upsert_projects_bulk *)

\* The error the INSERT INTO projects raises, NoError when it goes through
projects_insert_error(T, project) ==
    LET id == Arrow(project, "id")
        creator_id == Arrow(project, "creator_id")
    IN  IF ~ValidInt(id) \/ ~ValidInt(creator_id) THEN InvalidText
        ELSE IF id = NULL \/ creator_id = NULL \/ Arrow(project, "name") = NULL
             THEN NotNullViolation
        ELSE IF CastInt(creator_id)[1] \notin DOMAIN T.creators THEN ForeignKeyViolation
        ELSE NoError

\* INSERT INTO projects ... ON CONFLICT (id) DO UPDATE SET col = EXCLUDED.col
projects_insert(T, project, now) ==
    LET id == CastInt(Arrow(project, "id"))[1]
        present == id \in DOMAIN T.projects
        row == [ creator_id |-> CastInt(Arrow(project, "creator_id")),
                 name |-> Arrow(project, "name"),
                 data_hash |-> Arrow(project, "data_hash"),
                 created_at |-> IF present THEN T.projects[id].created_at ELSE V(now),
                 updated_at |-> V(now) ]
    IN  [T EXCEPT !.projects = Put(@, id, row)]

\* One statement of upsert_projects_bulk's loop
upsert_projects_bulk(c, T) ==
    LET project == c.data[c.i]
        id == Arrow(project, "id")
        v_data_hash == Arrow(project, "data_hash")
        entry(err) == [project_id |-> id, error |-> err]
    IN  IF c.pc = "select"
        THEN LET c1 == [c EXCEPT !.v_total = @ + 1]
                 found == id # NULL /\ ValidInt(id) /\ CastInt(id)[1] \in DOMAIN T.projects
                 v_exists == IF found THEN V(TRUE) ELSE NULL
                 v_existing_hash == IF found THEN T.projects[CastInt(id)[1]].data_hash ELSE NULL
                 c2 == [c1 EXCEPT !.v_exists = v_exists, !.v_existing_hash = v_existing_hash]
             IN  IF ~ValidInt(id)
                 THEN [call |-> Raise(c1, entry(InvalidText)), T |-> T]
                 ELSE IF hash_guard(v_exists, v_existing_hash, v_data_hash)
                 THEN [call |-> [c2 EXCEPT !.pc = "insert"], T |-> T]
                 ELSE [call |-> NextItem(c2), T |-> T]
        ELSE LET err == projects_insert_error(T, project) IN
             IF err # NoError
             THEN [call |-> Raise(c, entry(err)), T |-> T]
             ELSE [call |-> Count(c, CastInt(id)[1] \in DOMAIN T.projects),
                   T |-> projects_insert(T, project, c.now)]

\* The statement the call executes next
Statement(c, T) ==
    CASE c.fn = "upsert_creators_bulk" -> upsert_creators_bulk(c, T)
      [] c.fn = "upsert_projects_bulk" -> upsert_projects_bulk(c, T)
      [] OTHER -> sync_creator_outreach_bulk(c, T)

\* A whole call run without interleaving, from its current statement on
RECURSIVE RunToEnd(_, _)
RunToEnd(c, T) ==
    IF c.pc = "done" THEN [call |-> c, T |-> T]
    ELSE LET r == Statement(c, T) IN RunToEnd(r.call, r.T)


-----------------------------------------------------------------------------
(* Payloads: the JSONB arrays the callers pass *)

\* creators_data elements
CreatorSame == [id |-> "1", slug |-> "c1", name |-> "Ann", is_registered |-> "true", data_hash |-> "h1"]
CreatorRenamed == [id |-> "1", slug |-> "c1", name |-> "Zed", is_registered |-> "true", data_hash |-> "h1"]
CreatorChanged == [id |-> "1", slug |-> "c1", name |-> "Ann B", is_registered |-> "false", data_hash |-> "h2"]
CreatorNoHash == [id |-> "2", slug |-> "c2", name |-> "Bob B", is_registered |-> JsonNull]
CreatorNew == [id |-> "3", slug |-> "c3", name |-> "Cyd", data_hash |-> "h3"]
CreatorNoName == [id |-> "3", slug |-> "c3", data_hash |-> "h3"]
CreatorBadId == [id |-> "x", name |-> "Dee", data_hash |-> "h4"]
CreatorDupSlug == [id |-> "3", slug |-> "c1", name |-> "Cyd", data_hash |-> "h3"]

CreatorBatches ==
    { <<CreatorSame>>, <<CreatorRenamed>>, <<CreatorChanged, CreatorSame>>,
      <<CreatorNoHash>>, <<CreatorBadId, CreatorChanged>>,
      <<CreatorNew, CreatorNoName>>, <<CreatorDupSlug, CreatorNew, CreatorChanged>> }

\* projects_data elements
ProjectSame == [id |-> "1", creator_id |-> "1", name |-> "Lamp", data_hash |-> "p1"]
ProjectChanged == [id |-> "1", creator_id |-> "2", name |-> "Lamp 2", data_hash |-> "p2"]
ProjectNoHash == [id |-> "1", creator_id |-> "1", name |-> "Lamp 3"]
ProjectNew == [id |-> "2", creator_id |-> "2", name |-> "Kite", data_hash |-> "p3"]
ProjectOrphan == [id |-> "2", creator_id |-> "3", name |-> "Kite", data_hash |-> "p3"]

ProjectBatches ==
    { <<ProjectSame>>, <<ProjectChanged>>, <<ProjectNoHash>>,
      <<ProjectOrphan, ProjectNew>>, <<ProjectNew, ProjectChanged, ProjectSame>> }

\* outreach_data elements for creator c (text of the id)
OutreachFlags(c) == [creator_id |-> c, has_instagram |-> "true"]
OutreachEmail(c) ==
    [ creator_id |-> c, has_instagram |-> "false", email |-> "a@b.com",
      email_source_url |-> "https://x.com/about", contact_status |-> "completed",
      contact_attempts |-> "1", last_contact_check_at |-> Ts2, site_hash |-> "s2" ]
OutreachForm(c) ==
    [ creator_id |-> c, has_contact_form |-> "true",
      contact_form_url |-> "https://y.com/contact", contact_status |-> "completed",
      contact_attempts |-> "2", email |-> JsonNull ]
OutreachManual(c) ==
    [ creator_id |-> c, outreach_status |-> "contacted", notes |-> "mailed",
      tags |-> <<"hot">>, first_contacted_at |-> Ts2, last_contacted_at |-> Ts2,
      response_received_at |-> Ts2, priority |-> "5", follow_up_date |-> "2024-04-04" ]
OutreachDefault(c) ==
    [ creator_id |-> c, outreach_status |-> "not_contacted", notes |-> JsonNull,
      has_contact_form |-> "false", contact_status |-> "not_checked" ]
OutreachBlank(c) ==
    [ creator_id |-> c, email |-> "", email_source_url |-> "", contact_form_url |-> "",
      contact_error |-> "", site_hash |-> "", last_contact_check_at |-> "",
      first_contacted_at |-> "" ]
OutreachFailed(c) ==
    [ creator_id |-> c, contact_status |-> "error", contact_error |-> "timeout",
      contact_attempts |-> "4", last_contact_check_at |-> Ts1 ]
OutreachBadFlag(c) == [creator_id |-> c, has_instagram |-> "banana", email |-> "z@z.com"]
OutreachBadTime(c) == [creator_id |-> c, last_contact_check_at |-> "yesterday"]
OutreachNoId == [has_instagram |-> "true"]

OutreachBatches ==
    { <<OutreachFlags("1")>>, <<OutreachEmail("1")>>, <<OutreachForm("1")>>,
      <<OutreachManual("1")>>, <<OutreachDefault("1")>>, <<OutreachBlank("1")>>,
      <<OutreachFailed("1")>>,
      <<OutreachEmail("2"), OutreachBadFlag("1"), OutreachForm("2")>>,
      <<OutreachFlags("3"), OutreachManual("1"), OutreachNoId>>,
      <<OutreachBadTime("2"), OutreachFlags("x"), OutreachEmail("1")>> }

\* Request bodies of POST /api/creators/outreach
Bodies ==
    { [creatorId |-> 1, status |-> "contacted"],
      [creatorId |-> 1, outreachStatus |-> "not_contacted", status |-> "declined"],
      [creatorId |-> 2, outreachStatus |-> "", status |-> "accepted"],
      [creatorId |-> 3, status |-> "contacted"],
      [creatorId |-> 1],
      [status |-> "contacted"] }

-----------------------------------------------------------------------------
(* firecrawl_blocked_domains and firecrawl_block_domain *)

\* Domain text is a sequence of one-character strings, so that lower() and
\* trim() act on it character by character
Text(chars) == chars

\* lower() of one character (the letters the domains below use)
Fold(ch) ==
    CASE ch = "A" -> "a"
      [] ch = "B" -> "b"
      [] ch = "C" -> "c"
      [] ch = "D" -> "d"
      [] OTHER -> ch

\* Two domain texts are the same domain when they differ in case only
SameDomain(a, b) ==
    /\ Len(a) = Len(b)
    /\ \A i \in 1..Len(a) : Fold(a[i]) = Fold(b[i])

\* Variant: the domain is stored as given
lower_as_given(text) == text

\* lower(text)
lower(text) == [i \in 1..Len(text) |-> Fold(text[i])]

\* trim(text): leading and trailing spaces removed
RECURSIVE trim(_)
trim(text) ==
    IF text = <<>> THEN text
    ELSE IF Head(text) = " " THEN trim(Tail(text))
    ELSE IF text[Len(text)] = " " THEN trim(SubSeq(text, 1, Len(text) - 1))
    ELSE text

\* The value of parameter k of a call: the DEFAULT when the caller omits it
Param(args, k, default) == IF k \in DOMAIN args THEN args[k] ELSE default

DefaultReason == V("Not supported by Firecrawl")
DefaultSource == V("firecrawl")

\* firecrawl_block_domain(p_domain, p_reason, p_source, p_notes): the table
\* after the call
firecrawl_block_domain(blocked, args, now) ==
    LET p_domain == args.p_domain
        p_reason == Param(args, "p_reason", DefaultReason)
        p_source == Param(args, "p_source", DefaultSource)
        p_notes == Param(args, "p_notes", NULL)
    IN  IF p_domain = NULL \/ Len(trim(p_domain[1])) = 0
        THEN blocked
        ELSE LET domain == lower(p_domain[1]) IN
             IF domain \in DOMAIN blocked
             THEN Put(blocked, domain,
                      update_updated_at_column(
                        [ blocked[domain] EXCEPT
                          !.reason = Coalesce(p_reason, @),
                          !.source = Coalesce(p_source, @),
                          !.notes = Coalesce(p_notes, @),
                          !.updated_at = V(now) ],
                        now))
             ELSE Put(blocked, domain,
                      [ reason |-> p_reason, source |-> p_source, notes |-> p_notes,
                        created_at |-> V(now), updated_at |-> V(now) ])

\* Domains callers pass: the same domain in three spellings, another domain,
\* one with a leading space, blank ones
DomainAb == Text(<<"A", ".", "b">>)
Domainab == Text(<<"a", ".", "b">>)
DomainaB == Text(<<"a", ".", "B">>)
Domaincd == Text(<<"c", ".", "d">>)
CalledDomains ==
    { NULL, V(Text(<<>>)), V(Text(<<" ", " ">>)), V(DomainAb), V(Domainab), V(DomainaB),
      V(Domaincd), V(Text(<<" ">> \o Domainab)) }

\* Calls of firecrawl_block_domain, with and without the optional parameters
BlockCalls ==
    {[p_domain |-> d] : d \in CalledDomains}
    \cup {[p_domain |-> d, p_reason |-> r] :
            d \in CalledDomains, r \in {NULL, V("payment required")}}
    \cup {[p_domain |-> d, p_reason |-> V("unsupported content"), p_source |-> src, p_notes |-> n] :
            d \in CalledDomains, src \in {NULL, V("manual")}, n \in {NULL, V("402")}}

-----------------------------------------------------------------------------
(* pipeline_state and firecrawl_accounts *)

CheckViolation == "23514"

\* Variant: the id column carries no CHECK constraint
pipeline_state_unchecked(id) == TRUE

\* id SMALLINT PRIMARY KEY DEFAULT 1 CHECK (id = 1)
pipeline_state_check(id) == id = 1

\* The column defaults of pipeline_state
PipelineStateDefaults(now) ==
    [ last_run_at |-> NULL, last_project_created_at |-> NULL,
      last_contact_check_at |-> NULL, last_site_hash |-> NULL, run_notes |-> NULL,
      pipeline_version |-> NULL, created_at |-> V(now), updated_at |-> V(now) ]

\* The error an INSERT INTO pipeline_state (id) VALUES (id) raises
pipeline_state_insert_error(state, id) ==
    IF ~pipeline_state_check(id) THEN CheckViolation
    ELSE IF id \in DOMAIN state THEN UniqueViolation
    ELSE NoError

\* INSERT INTO pipeline_state (id) VALUES (id): the table afterwards
pipeline_state_insert(state, id, now) ==
    IF pipeline_state_insert_error(state, id) = NoError
    THEN Put(state, id, PipelineStateDefaults(now))
    ELSE state

\* INSERT INTO pipeline_state (id) VALUES (1) ON CONFLICT (id) DO NOTHING
pipeline_state_seed(state, now) ==
    IF 1 \in DOMAIN state THEN state ELSE pipeline_state_insert(state, 1, now)

\* Ids an INSERT may name (the DEFAULT is 1)
StateIds == {0, 1, 2}

\* A firecrawl_accounts row with the column defaults
AccountDefaults(key) ==
    [ api_key |-> V(key), status |-> V("active"), exhausted_at |-> NULL,
      created_at |-> V(0), updated_at |-> V(0) ]

\* The accounts registered for the pool
InitAccounts == Put(Put(<<>>, 1, AccountDefaults("fc-1")), 2, AccountDefaults("fc-2"))

-----------------------------------------------------------------------------
(* Initial state *)

CreatorIds == {1, 2, 3}
WorkerIds == {"w1", "w2"}
Outcomes == {"completed", "not_found", "blocked", "error"}

\* A row a human has worked on after extraction found a contact form
WorkedRow ==
    Stored([ OutreachDefaults(0) EXCEPT
             !.outreach_status = V("partnership"),
             !.notes = V("call Tuesday"),
             !.tags = V(<<"vip">>),
             !.priority = V(2),
             !.follow_up_date = V("2024-03-01"),
             !.first_contacted_at = CastTimestamp(V(Ts1)),
             !.last_contacted_at = CastTimestamp(V(Ts1)),
             !.has_instagram = V(TRUE),
             !.has_contact_form = V(TRUE),
             !.contact_form_url = V("https://x.com/contact"),
             !.last_contact_check_at = CastTimestamp(V(Ts1)),
             !.contact_status = V("completed"),
             !.contact_attempts = V(3),
             !.site_hash = V("s1") ])

InitCreators ==
    Put(Put(<<>>, 1, [ slug |-> V("c1"), name |-> V("Ann"), is_registered |-> V(TRUE),
                       data_hash |-> V("h1"), created_at |-> V(0), updated_at |-> V(0) ]),
        2, [ slug |-> V("c2"), name |-> V("Bob"), is_registered |-> NULL,
             data_hash |-> NULL, created_at |-> V(0), updated_at |-> V(0) ])

InitProjects ==
    Put(<<>>, 1, [ creator_id |-> V(1), name |-> V("Lamp"), data_hash |-> V("p1"),
                   created_at |-> V(0), updated_at |-> V(0) ])

\* No extraction run in progress
NoRun ==
    [ pc |-> "idle", dryRun |-> FALSE, sites |-> <<>>, stale |-> {},
      candidates |-> <<>>, k |-> 0, items |-> <<>>, handed |-> {}, withheld |-> {},
      finished |-> <<>>, truncated |-> FALSE ]

\* The export dialog before the Export button is clicked
ClosedDialog ==
    [ exportDialogOpen |-> FALSE, exportStatus |-> "idle", exporting |-> FALSE,
      exportError |-> "", exportedCount |-> 0, inFlight |-> 0 ]

\* A request of loadCreators / loadProjects, as sent
PageRequest(pageNum, isNewFilter, replace, filters, initial) ==
    [ pageNum |-> pageNum, isNewFilter |-> isNewFilter, replace |-> replace,
      filters |-> filters, initial |-> initial ]

\* A list page as mounted: useState defaults, and the mount effect has called
\* loadCreators(0, true)
MountedPage ==
    [ filters |-> 1, items |-> <<>>, totalCount |-> 0, loading |-> TRUE,
      loadingMore |-> TRUE, hasMore |-> TRUE, page |-> 0, initialLoadDone |-> FALSE,
      requests |-> {PageRequest(0, TRUE, FALSE, 1, TRUE)},
      changes |-> 0 ]

\* No view of creator 1 is open
NoView ==
    [ view |-> "none", outreach |-> NULL, pc |-> "idle", method |-> "", body |-> <<>> ]

NoRequest == [pc |-> "idle", body |-> <<>>, existing |-> FALSE, status |-> 0]
IdleWorker == [pc |-> "idle", creator |-> 0, attempts |-> 0]

\* contact_attempts as stored for creator c, 0 without a row
StoredAttempts(T, c) ==
    IF c \in DOMAIN T.creator_outreach
    THEN T.creator_outreach[c].contact_attempts[1]
    ELSE 0

Init ==
    /\ creators = InitCreators
    /\ projects = InitProjects
    /\ creator_outreach \in {<<>>, Put(<<>>, 1, WorkedRow)}
    /\ clock = 0
    /\ call = NoCall
    /\ req = NoRequest
    /\ workers = [w \in WorkerIds |-> IdleWorker]
    /\ merged = [c \in CreatorIds |-> [count |-> StoredAttempts(Tables, c), others |-> FALSE]]
    /\ firecrawl_blocked_domains = <<>>
    /\ firecrawl_accounts = InitAccounts
    /\ pipeline_state = <<>>
    /\ run = NoRun
    /\ exportDialog = ClosedDialog
    /\ listPage = MountedPage
    /\ statusView = NoView


-----------------------------------------------------------------------------
(* Merger calls *)

Begin(fn, data) ==
    /\ call.pc = "done"
    /\ clock < MaxClock
    /\ clock' = clock + 1
    /\ call' = NewCall(fn, data, Tables, clock + 1)
    /\ UNCHANGED <<creators, projects, creator_outreach, req, workers, merged>>
    /\ UNCHANGED pipeline
    /\ UNCHANGED ui

CallCreators == \E data \in CreatorBatches : Begin("upsert_creators_bulk", data)
CallProjects == \E data \in ProjectBatches : Begin("upsert_projects_bulk", data)
CallOutreach == \E data \in OutreachBatches : Begin("sync_creator_outreach_bulk", data)

\* The next statement of the running function takes effect
Execute(fn) ==
    /\ call.fn = fn
    /\ call.pc # "done"
    /\ LET r == Statement(call, Tables)
           wrote == call.pc = "insert" /\ r.call.failed = call.failed
           id == CastInt(Arrow(call.data[call.i], "creator_id"))[1]
       IN  /\ call' = r.call
           /\ creators' = r.T.creators
           /\ projects' = r.T.projects
           /\ creator_outreach' = r.T.creator_outreach
           /\ merged' = IF fn = "sync_creator_outreach_bulk" /\ wrote
                        THEN [ merged EXCEPT
                               ![id].count = IF call.worker THEN @ + 1 ELSE @,
                               ![id].others = @ \/ ~call.worker ]
                        ELSE merged
    /\ UNCHANGED <<clock, req, workers>>
    /\ UNCHANGED pipeline
    /\ UNCHANGED ui

CreatorsStatement == Execute("upsert_creators_bulk")
ProjectsStatement == Execute("upsert_projects_bulk")
OutreachStatement == Execute("sync_creator_outreach_bulk")

-----------------------------------------------------------------------------
(* POST /api/creators/outreach *)

\* const newStatus = outreachStatus || status
NewStatus(body) ==
    IF "outreachStatus" \in DOMAIN body /\ body.outreachStatus # ""
    THEN body.outreachStatus
    ELSE IF "status" \in DOMAIN body THEN body.status ELSE ""

\* !creatorId || !newStatus
MissingFields(body) ==
    \/ "creatorId" \notin DOMAIN body
    \/ body.creatorId = 0
    \/ NewStatus(body) = ""

\* Variant: the update also puts the extraction state back to its default
outreach_update_resetting(T, creatorId, newStatus, now) ==
    IF creatorId \in DOMAIN T.creator_outreach
    THEN [ T EXCEPT !.creator_outreach[creatorId] =
             Stored(update_updated_at_column(
                      [@ EXCEPT !.outreach_status = V(newStatus),
                                !.contact_status = V("not_checked")], now)) ]
    ELSE T

\* .update({outreach_status, updated_at}).eq('creator_id', creatorId)
outreach_update(T, creatorId, newStatus, now) ==
    IF creatorId \in DOMAIN T.creator_outreach
    THEN [ T EXCEPT !.creator_outreach[creatorId] =
             Stored(update_updated_at_column([@ EXCEPT !.outreach_status = V(newStatus)], now)) ]
    ELSE T

\* The error of .insert({creator_id, outreach_status})
outreach_insert_error(T, creatorId) ==
    IF creatorId \in DOMAIN T.creator_outreach THEN UniqueViolation
    ELSE IF creatorId \notin DOMAIN T.creators THEN ForeignKeyViolation
    ELSE NoError

\* .insert({creator_id, outreach_status}): the other columns take defaults
outreach_insert(T, creatorId, newStatus, now) ==
    [ T EXCEPT !.creator_outreach =
        Put(@, creatorId, Stored([OutreachDefaults(now) EXCEPT !.outreach_status = V(newStatus)])) ]

\* The request arrives: validation, then the maybeSingle() select
PostSelect ==
    /\ req.pc \in {"idle", "done"}
    /\ clock < MaxClock
    /\ \E body \in Bodies :
         req' = IF MissingFields(body)
                THEN [pc |-> "done", body |-> body, existing |-> FALSE, status |-> 400]
                ELSE [ pc |-> "write", body |-> body,
                       existing |-> body.creatorId \in DOMAIN creator_outreach,
                       status |-> 0 ]
    /\ UNCHANGED <<creators, projects, creator_outreach, clock, call, workers, merged>>
    /\ UNCHANGED pipeline
    /\ UNCHANGED ui

\* if (existing): the update
PostUpdate ==
    /\ req.pc = "write"
    /\ req.existing
    /\ clock < MaxClock
    /\ clock' = clock + 1
    /\ creator_outreach' =
         outreach_update(Tables, req.body.creatorId, NewStatus(req.body), clock + 1).creator_outreach
    /\ req' = [req EXCEPT !.pc = "done", !.status = 200]
    /\ call' = [call EXCEPT !.clean = FALSE]
    /\ UNCHANGED <<creators, projects, workers, merged>>
    /\ UNCHANGED pipeline
    /\ UNCHANGED ui

\* else: the insert; an error is thrown and answered with 500
PostInsert ==
    /\ req.pc = "write"
    /\ ~req.existing
    /\ clock < MaxClock
    /\ clock' = clock + 1
    /\ IF outreach_insert_error(Tables, req.body.creatorId) # NoError
       THEN /\ req' = [req EXCEPT !.pc = "done", !.status = 500]
            /\ UNCHANGED <<creator_outreach, call>>
       ELSE /\ creator_outreach' =
                 outreach_insert(Tables, req.body.creatorId, NewStatus(req.body), clock + 1).creator_outreach
            /\ req' = [req EXCEPT !.pc = "done", !.status = 200]
            /\ call' = [call EXCEPT !.clean = FALSE]
    /\ UNCHANGED <<creators, projects, workers, merged>>
    /\ UNCHANGED pipeline
    /\ UNCHANGED ui

-----------------------------------------------------------------------------
(* Contact-extraction worker and dispatcher *)

\* The result record of one invocation for creator c that read n attempts
WorkerResult(c, n, outcome) ==
    LET base == [ creator_id |-> IntToText(c), contact_status |-> outcome,
                  contact_attempts |-> IntToText(n + 1),
                  last_contact_check_at |-> Ts2, site_hash |-> "s2" ]
    IN  CASE outcome = "completed" ->
               [ k \in DOMAIN base \cup {"email", "email_source_url"} |->
                   IF k \in DOMAIN base THEN base[k]
                   ELSE IF k = "email" THEN "hello@example.com"
                   ELSE "https://example.com/contact" ]
          [] outcome \in {"blocked", "error"} ->
               [ k \in DOMAIN base \cup {"contact_error"} |->
                   IF k \in DOMAIN base THEN base[k] ELSE outcome ]
          [] OTHER -> base

\* A worker is given creator c with the row the selector read
WorkerStart(w, c) ==
    /\ workers[w].pc = "idle"
    /\ clock < MaxClock
    /\ c \in DOMAIN creators
    /\ workers' = [ workers EXCEPT ![w] =
                      [pc |-> "running", creator |-> c, attempts |-> StoredAttempts(Tables, c)] ]
    /\ UNCHANGED <<creators, projects, creator_outreach, clock, call, req, merged>>
    /\ UNCHANGED pipeline
    /\ UNCHANGED ui

\* The invocation ends and the dispatcher hands its result to the Merger
WorkerMerge(w, outcome) ==
    /\ workers[w].pc = "running"
    /\ call.pc = "done"
    /\ clock < MaxClock
    /\ clock' = clock + 1
    /\ call' = [ NewCall("sync_creator_outreach_bulk",
                         <<WorkerResult(workers[w].creator, workers[w].attempts, outcome)>>,
                         Tables, clock + 1)
                 EXCEPT !.worker = TRUE ]
    /\ workers' = [workers EXCEPT ![w] = IdleWorker]
    /\ UNCHANGED <<creators, projects, creator_outreach, req, merged>>
    /\ UNCHANGED pipeline
    /\ UNCHANGED ui

-----------------------------------------------------------------------------
(* The contact-extraction run: selector, credential pool, blocklist check *)

\* --contacts-batch-size and --contacts-workers, scaled down
BatchSize == 2
ConcurrencyLimit == 2

\* The retries a worker makes after a transient failure
MaxRetries == 1

\* The primary site of each creator as the selector's join finds it: creators
\* 1 and 2 share a domain, spelled differently; in the second list creator 1
\* has moved to another site
SiteLists ==
    { [c \in CreatorIds |-> IF c = 1 THEN DomainAb ELSE IF c = 2 THEN Domainab ELSE Domaincd],
      [c \in CreatorIds |-> IF c = 2 THEN Domainab ELSE Domaincd] }

\* The creators whose staleness window has elapsed since last_contact_check_at
StaleSets == {{}, {1}}

\* site_hash: a hash of the canonical (lower-case) site
SiteHash(site) == IF lower(site) = Domainab THEN "s1" ELSE "s2"

\* The elements of a sequence
Range(seq) == {seq[i] : i \in 1..Len(seq)}

\* priority of creator c's row, the column default without a row
PriorityOf(T, c) ==
    IF c \in DOMAIN T.creator_outreach /\ T.creator_outreach[c].priority # NULL
    THEN T.creator_outreach[c].priority[1]
    ELSE 0

\* Variant: every creator missing an email or a contact form qualifies
QualifiesIfIncomplete(T, c, sites, stale) ==
    \/ c \notin DOMAIN T.creator_outreach
    \/ T.creator_outreach[c].contact_status = V("not_checked")
    \/ T.creator_outreach[c].site_hash # V(SiteHash(sites[c]))
    \/ c \in stale
    \/ T.creator_outreach[c].email = NULL
    \/ T.creator_outreach[c].has_contact_form # V(TRUE)

\* A creator qualifies for extraction: no row yet, never checked, a new or
\* changed primary site, or the staleness window has elapsed
Qualifies(T, c, sites, stale) ==
    \/ c \notin DOMAIN T.creator_outreach
    \/ T.creator_outreach[c].contact_status = V("not_checked")
    \/ T.creator_outreach[c].site_hash # V(SiteHash(sites[c]))
    \/ c \in stale

\* The candidates in order: priority descending, then creator id ascending
RECURSIVE Ordered(_, _)
Ordered(T, ids) ==
    IF ids = {} THEN <<>>
    ELSE LET first == CHOOSE c \in ids :
                        \A d \in ids :
                           \/ PriorityOf(T, c) > PriorityOf(T, d)
                           \/ PriorityOf(T, c) = PriorityOf(T, d) /\ c <= d
         IN  <<first>> \o Ordered(T, ids \ {first})

Selector(T, sites, stale) ==
    Ordered(T, {c \in DOMAIN T.creators : Qualifies(T, c, sites, stale)})

\* The candidates of batch k
Batch(candidates, k) ==
    SubSeq(candidates, (k - 1) * BatchSize + 1,
           IF k * BatchSize < Len(candidates) THEN k * BatchSize ELSE Len(candidates))

BatchCount(candidates) == (Len(candidates) + BatchSize - 1) \div BatchSize

\* Variant: every registered credential is handed out
AllAccounts(accounts) == DOMAIN accounts

\* The credentials acquire() may return: rows with status = 'active'
ActiveAccounts(accounts) == {id \in DOMAIN accounts : accounts[id].status = V("active")}

\* reportExhausted(credential): status = 'exhausted', exhausted_at = now,
\* applied only to a row that is still active
report_exhausted(accounts, id, now) ==
    IF accounts[id].status = V("active")
    THEN [ accounts EXCEPT ![id] =
             update_updated_at_column(
               [@ EXCEPT !.status = V("exhausted"), !.exhausted_at = V(now)], now) ]
    ELSE accounts

\* Variant: isBlocked compares the domain as spelled
is_blocked_as_spelled(blocked, domain) == domain \in DOMAIN blocked

\* isBlocked(domain): case-insensitive exact match
is_blocked(blocked, domain) == lower(domain) \in DOMAIN blocked

\* A work item as the dispatcher queues it
QueuedItem(site) ==
    [ pc |-> "queued", site |-> site, wasBlocked |-> FALSE, attempts |-> 0,
      cred |-> 0, calls |-> 0, tries |-> 0, outcome |-> "", reason |-> "" ]

\* The item ends with an outcome
Finish(item, outcome, reason) ==
    [item EXCEPT !.pc = "done", !.outcome = outcome, !.reason = reason]

\* Variant: PoolExhausted is raised out of the worker and ends the run
PoolExhaustedAborts(r, c) == [r EXCEPT !.pc = "aborted"]

\* acquire() failed with PoolExhausted: fatal for this item, not for the run
PoolExhausted(r, c) ==
    [r EXCEPT !.items[c] = Finish(@, "error", "credentials exhausted")]

\* The result record of a finished item
ItemResult(c, item) ==
    LET base == WorkerResult(c, item.attempts, item.outcome) IN
    [ k \in DOMAIN base |->
        IF k = "contact_error" THEN item.reason
        ELSE IF k = "site_hash" THEN SiteHash(item.site)
        ELSE base[k] ]

\* Variant: the next batch goes out as soon as the previous one has finished
MayDispatchEarly(r) ==
    \/ r.pc = "dispatch"
    \/ /\ r.pc = "running"
       /\ \A c \in DOMAIN r.items : r.items[c].pc = "done"
       /\ r.k < BatchCount(r.candidates)

\* The dispatcher may send out the next batch
MayDispatch(r) == r.pc = "dispatch"

\* Variant: a dry run hands its batches over like any other
WithholdsNever(r) == FALSE

\* The dispatcher withholds the batch from the Merger
Withholds(r) == r.dryRun

\* What the selector is run with: the site list and the stale creators
SelectorInputs ==
    { [sites |-> l, stale |-> st] : l \in SiteLists, st \in StaleSets }

\* The three creators of the runs below
RunCreators ==
    Put(InitCreators, 3, [ slug |-> V("c3"), name |-> V("Cy"), is_registered |-> V(FALSE),
                           data_hash |-> V("h3"), created_at |-> V(0), updated_at |-> V(0) ])

InitPipeline ==
    /\ creators = RunCreators
    /\ projects = InitProjects
    /\ creator_outreach \in {<<>>, Put(<<>>, 1, WorkedRow)}
    /\ clock = 0
    /\ call = NoCall
    /\ req = NoRequest
    /\ workers = [w \in WorkerIds |-> IdleWorker]
    /\ merged = [c \in CreatorIds |-> [count |-> StoredAttempts(Tables, c), others |-> FALSE]]
    /\ firecrawl_blocked_domains = <<>>
    /\ firecrawl_accounts = InitAccounts
    /\ pipeline_state = <<>>
    /\ run = NoRun
    /\ exportDialog = ClosedDialog
    /\ listPage = MountedPage
    /\ statusView = NoView

\* The setup script's INSERT ... ON CONFLICT (id) DO NOTHING is (re)run
SeedState ==
    /\ pipeline_state' = pipeline_state_seed(pipeline_state, clock)
    /\ UNCHANGED <<storage, firecrawl_blocked_domains, firecrawl_accounts, run>>
    /\ UNCHANGED ui

\* Some session inserts a row with the given id
InsertState(id) ==
    /\ pipeline_state' = pipeline_state_insert(pipeline_state, id, clock)
    /\ UNCHANGED <<storage, firecrawl_blocked_domains, firecrawl_accounts, run>>
    /\ UNCHANGED ui

\* loadWatermark(): a run begins; the state row is created when absent
LoadWatermark(dry) ==
    /\ run.pc \in {"idle", "done", "aborted"}
    /\ clock < MaxClock
    /\ clock' = clock + 1
    /\ pipeline_state' = pipeline_state_seed(pipeline_state, clock + 1)
    /\ run' = [NoRun EXCEPT !.pc = "loaded", !.dryRun = dry]
    /\ UNCHANGED <<creators, projects, creator_outreach, call, req, workers, merged>>
    /\ UNCHANGED <<firecrawl_blocked_domains, firecrawl_accounts>>
    /\ UNCHANGED ui

\* The upstream collection rewrites creator 1's profile between the load of
\* the watermark and the selection
ProfileChange ==
    /\ run.pc = "loaded"
    /\ creators[1].data_hash = V("h1")
    /\ creators' = RunToEnd(NewCall("upsert_creators_bulk", <<CreatorChanged>>, Tables, clock),
                            Tables).T.creators
    /\ UNCHANGED <<projects, creator_outreach, clock, call, req, workers, merged>>
    /\ UNCHANGED pipeline
    /\ UNCHANGED ui

\* Where a run goes once its last batch is settled
AfterBatches(r) == IF r.dryRun THEN "done" ELSE "commit"

\* The creators with a row that records a contact check: only these can be stale
Checked(T) ==
    {c \in DOMAIN T.creator_outreach : T.creator_outreach[c].last_contact_check_at # NULL}

\* The selector produces the candidates; a pool with no active credential
\* before any candidate is processed ends the run
Select ==
    /\ run.pc = "loaded"
    /\ \E in \in SelectorInputs :
         /\ in.stale \subseteq Checked(Tables)
         /\ LET candidates == Selector(Tables, in.sites, in.stale) IN
            run' = [ run EXCEPT
                     !.sites = in.sites, !.stale = in.stale, !.candidates = candidates,
                     !.pc = IF ActiveAccounts(firecrawl_accounts) = {} THEN "aborted"
                            ELSE IF candidates = <<>> THEN AfterBatches(run)
                            ELSE "dispatch" ]
    /\ UNCHANGED <<storage, firecrawl_blocked_domains, firecrawl_accounts, pipeline_state>>
    /\ UNCHANGED ui

\* The dispatcher queues the items of the next batch
Dispatch ==
    /\ MayDispatch(run)
    /\ run.k < BatchCount(run.candidates)
    /\ run' = [ run EXCEPT
                !.k = @ + 1, !.pc = "running",
                !.items = [ c \in Range(Batch(run.candidates, run.k + 1)) |->
                              QueuedItem(run.sites[c]) ] ]
    /\ UNCHANGED <<storage, firecrawl_blocked_domains, firecrawl_accounts, pipeline_state>>
    /\ UNCHANGED ui

InFlight(r) == {c \in DOMAIN r.items : r.items[c].pc \in {"acquire", "call"}}

\* A worker is given creator c: it reads the row and checks the blocklist
\* before spending a credential
StartItem(c) ==
    /\ run.pc = "running"
    /\ c \in DOMAIN run.items
    /\ run.items[c].pc = "queued"
    /\ Cardinality(InFlight(run)) < ConcurrencyLimit
    /\ LET site == run.items[c].site
           given == [ run.items[c] EXCEPT
                      !.attempts = StoredAttempts(Tables, c),
                      !.wasBlocked = \E d \in DOMAIN firecrawl_blocked_domains :
                                        SameDomain(d, site) ]
       IN  run' = [ run EXCEPT !.items[c] =
                      IF is_blocked(firecrawl_blocked_domains, site)
                      THEN Finish(given, "blocked",
                                  Coalesce(firecrawl_blocked_domains[lower(site)].reason,
                                           V("blocked"))[1])
                      ELSE [given EXCEPT !.pc = "acquire"] ]
    /\ UNCHANGED <<storage, firecrawl_blocked_domains, firecrawl_accounts, pipeline_state>>
    /\ UNCHANGED ui

\* acquire(): an active credential, or PoolExhausted
Acquire(c) ==
    /\ run.pc = "running"
    /\ c \in DOMAIN run.items
    /\ run.items[c].pc = "acquire"
    /\ IF ActiveAccounts(firecrawl_accounts) = {}
       THEN run' = PoolExhausted(run, c)
       ELSE \E cred \in ActiveAccounts(firecrawl_accounts) :
               run' = [run EXCEPT !.items[c].pc = "call", !.items[c].cred = cred]
    /\ UNCHANGED <<storage, firecrawl_blocked_domains, firecrawl_accounts, pipeline_state>>
    /\ UNCHANGED ui

\* What the external service may answer
Responses == {"found", "none", "unsupported", "quota", "transient"}

\* One call to the external service with the acquired credential
ServiceCall(c, response) ==
    /\ run.pc = "running"
    /\ c \in DOMAIN run.items
    /\ run.items[c].pc = "call"
    /\ firecrawl_accounts[run.items[c].cred].status # V("active") => response = "quota"
    /\ LET item == [run.items[c] EXCEPT !.calls = @ + 1] IN
       CASE response = "found" ->
              /\ run' = [run EXCEPT !.items[c] = Finish(item, "completed", "")]
              /\ UNCHANGED <<firecrawl_blocked_domains, firecrawl_accounts>>
         [] response = "none" ->
              /\ run' = [run EXCEPT !.items[c] = Finish(item, "not_found", "")]
              /\ UNCHANGED <<firecrawl_blocked_domains, firecrawl_accounts>>
         [] response = "unsupported" ->
              /\ run' = [run EXCEPT !.items[c] = Finish(item, "blocked", "unsupported content")]
              /\ firecrawl_blocked_domains' =
                   firecrawl_block_domain(firecrawl_blocked_domains,
                                          [ p_domain |-> V(item.site),
                                            p_reason |-> V("unsupported content") ],
                                          clock)
              /\ UNCHANGED firecrawl_accounts
         [] response = "quota" ->
              /\ run' = [run EXCEPT !.items[c] = [item EXCEPT !.pc = "acquire", !.cred = 0]]
              /\ firecrawl_accounts' = report_exhausted(firecrawl_accounts, item.cred, clock)
              /\ UNCHANGED firecrawl_blocked_domains
         [] response = "transient" ->
              /\ run' = [ run EXCEPT !.items[c] =
                            IF item.tries >= MaxRetries
                            THEN Finish(item, "error", "timeout")
                            ELSE [item EXCEPT !.tries = @ + 1] ]
              /\ UNCHANGED <<firecrawl_blocked_domains, firecrawl_accounts>>
    /\ UNCHANGED <<storage, pipeline_state>>
    /\ UNCHANGED ui

\* Every item of the batch in flight has ended
BatchFinished(r) ==
    /\ r.pc = "running"
    /\ \A c \in DOMAIN r.items : r.items[c].pc = "done"

\* The run with the batch in flight settled
Settled(r) ==
    [ r EXCEPT
      !.pc = IF r.k < BatchCount(r.candidates) THEN "dispatch" ELSE AfterBatches(r),
      !.items = <<>>,
      !.finished = [ c \in DOMAIN r.finished \cup DOMAIN r.items |->
                       IF c \in DOMAIN r.items
                       THEN [outcome |-> r.items[c].outcome, reason |-> r.items[c].reason]
                       ELSE r.finished[c] ] ]

\* The results of the batch in flight, in candidate order
BatchResults(r) ==
    LET batch == Batch(r.candidates, r.k) IN
    [i \in 1..Len(batch) |-> ItemResult(batch[i], r.items[batch[i]])]

\* The dispatcher hands the finished batch to sync_creator_outreach_bulk
HandToMerger ==
    /\ BatchFinished(run)
    /\ ~Withholds(run)
    /\ clock < MaxClock
    /\ clock' = clock + 1
    /\ LET r == RunToEnd(NewCall("sync_creator_outreach_bulk", BatchResults(run),
                                 Tables, clock + 1), Tables)
           batch == Batch(run.candidates, run.k)
       IN  /\ creator_outreach' = r.T.creator_outreach
           /\ call' = [r.call EXCEPT !.worker = TRUE]
           /\ merged' = [ c \in CreatorIds |->
                            IF \E i \in 1..Len(batch) : batch[i] = c /\ i \notin r.call.failed
                            THEN [merged[c] EXCEPT !.count = @ + 1]
                            ELSE merged[c] ]
    /\ run' = [Settled(run) EXCEPT !.handed = @ \cup {run.k}]
    /\ UNCHANGED <<creators, projects, req, workers>>
    /\ UNCHANGED <<firecrawl_blocked_domains, firecrawl_accounts, pipeline_state>>
    /\ UNCHANGED ui

\* Dry run: the finished batch is withheld from the Merger
Withhold ==
    /\ BatchFinished(run)
    /\ Withholds(run)
    /\ run' = [Settled(run) EXCEPT !.withheld = @ \cup {run.k}]
    /\ UNCHANGED <<storage, firecrawl_blocked_domains, firecrawl_accounts, pipeline_state>>
    /\ UNCHANGED ui

\* The deadline or the item limit of the run is reached between two batches:
\* nothing more is scheduled and the run goes to its watermark
Deadline ==
    /\ run.pc = "dispatch"
    /\ run.k < BatchCount(run.candidates)
    /\ run' = [run EXCEPT !.truncated = TRUE, !.pc = AfterBatches(run)]
    /\ UNCHANGED <<storage, firecrawl_blocked_domains, firecrawl_accounts, pipeline_state>>
    /\ UNCHANGED ui

\* The newest created_at among the stored projects
LatestProject(T) ==
    LET times == {T.projects[p].created_at[1] : p \in DOMAIN T.projects} IN
    IF times = {} THEN NULL ELSE V(CHOOSE t \in times : \A u \in times : u <= t)

\* Variant: every run counts as completed
RunCompletedAlways(r) == TRUE

\* The run went through all its candidates
RunCompleted(r) == ~r.truncated

\* The state row after commitWatermark(run_summary) at time now
commit_watermark(row, r, T, now) ==
    LET ran == [row EXCEPT !.last_run_at = V(now)] IN
    update_updated_at_column(
      IF RunCompleted(r)
      THEN [ran EXCEPT !.last_contact_check_at = V(now),
                       !.last_project_created_at = LatestProject(T)]
      ELSE ran,
      now)

\* commitWatermark(): the state row records the run
CommitWatermark ==
    /\ run.pc = "commit"
    /\ pipeline_state' =
         [pipeline_state EXCEPT ![1] = commit_watermark(@, run, Tables, clock)]
    /\ run' = [run EXCEPT !.pc = "done"]
    /\ UNCHANGED <<storage, firecrawl_blocked_domains, firecrawl_accounts>>
    /\ UNCHANGED ui

-----------------------------------------------------------------------------
(* Website: the export dialog of the creators and projects pages *)

\* The numbers of rows an export response may carry
ExportSizes == {0, 3}

\* Variant: the dialog closes whatever the status
MayCloseAlways(status) == TRUE

\* ExportDialog.handleClose: if (status !== 'exporting') onOpenChange(false)
MayClose(status) == status # "exporting"

\* The page under the open dialog takes no clicks
PageClickable == ~exportDialog.exportDialogOpen

\* handleExport: the Export button, disabled={exporting}
handleExport ==
    /\ PageClickable
    /\ ~exportDialog.exporting
    /\ exportDialog' = [exportDialog EXCEPT !.exportDialogOpen = TRUE,
                                            !.exportStatus = "confirming"]
    /\ UNCHANGED <<storage, pipeline, listPage, statusView>>

\* Cancel, Close, Escape or a click outside: handleClose, and through it
\* handleExportDialogClose
handleClose ==
    /\ exportDialog.exportDialogOpen
    /\ exportDialog' =
         IF MayClose(exportDialog.exportStatus)
         THEN [exportDialog EXCEPT !.exportDialogOpen = FALSE, !.exportStatus = "idle",
                                   !.exportError = ""]
         ELSE exportDialog
    /\ UNCHANGED <<storage, pipeline, listPage, statusView>>

\* Continue or Try Again: performExport up to its fetch
performExport ==
    /\ exportDialog.exportDialogOpen
    /\ exportDialog.exportStatus \in {"confirming", "error"}
    /\ exportDialog' = [exportDialog EXCEPT !.exportStatus = "exporting", !.exporting = TRUE,
                                            !.inFlight = @ + 1]
    /\ UNCHANGED <<storage, pipeline, listPage, statusView>>

\* performExport from the response on: success, or the catch branch, then finally
ExportResponds(ok, n) ==
    /\ exportDialog.inFlight > 0
    /\ exportDialog' =
         IF ok
         THEN [exportDialog EXCEPT !.exportedCount = n, !.exportStatus = "success",
                                   !.exporting = FALSE, !.inFlight = @ - 1]
         ELSE [exportDialog EXCEPT !.exportError = "Failed to export creators",
                                   !.exportStatus = "error",
                                   !.exporting = FALSE, !.inFlight = @ - 1]
    /\ UNCHANGED <<storage, pipeline, listPage, statusView>>

-----------------------------------------------------------------------------
(* Website: the list of the creators and projects pages *)

\* PAGE_SIZE, scaled down
PageSize == 2

\* The pages a visitor scrolls through at most
MaxPage == 3

\* The times a visitor changes the filters at most
MaxFilterChanges == 2

\* The filter settings a visitor chooses between
FilterIds == {1, 2}

\* v_total_count of the search function: the rows that match the filters
MatchCount(filters) == IF filters = 1 THEN 6 ELSE 3

\* The rows the search function returns for LIMIT PageSize OFFSET offset:
\* row n of the filters' result is <<filters, n>>
SearchRows(filters, offset) ==
    LET last == IF offset + PageSize < MatchCount(filters)
                THEN offset + PageSize ELSE MatchCount(filters)
    IN  IF offset >= MatchCount(filters) THEN <<>>
        ELSE [i \in 1..(last - offset) |-> <<filters, offset + i>>]

\* total_count of the response: that of the first row, 0 without rows
ResponseTotal(filters, data) == IF data = <<>> THEN 0 ELSE MatchCount(filters)

\* loadMore: const nextPage = page + 1
NextPage(lp) == lp.page + 1

\* The IntersectionObserver callback calls loadMore: the sentinel is rendered
\* under a non-empty list only
LoadMore ==
    /\ listPage.items # <<>>
    /\ listPage.hasMore
    /\ ~listPage.loadingMore
    /\ ~listPage.loading
    /\ NextPage(listPage) <= MaxPage
    /\ listPage' =
         [ listPage EXCEPT
           !.page = NextPage(listPage),
           !.loadingMore = TRUE,
           !.requests = @ \cup {PageRequest(NextPage(listPage), FALSE, FALSE,
                                            listPage.filters, FALSE)} ]
    /\ UNCHANGED <<storage, pipeline, exportDialog, statusView>>

\* The visitor changes the filters: the effect on [filters] clears the list
\* and calls loadCreators(0, true, true)
SetFilters(filters) ==
    /\ ~listPage.loading
    /\ filters # listPage.filters
    /\ listPage.changes < MaxFilterChanges
    /\ listPage' =
         IF listPage.initialLoadDone
         THEN [ listPage EXCEPT
                !.filters = filters, !.items = <<>>, !.page = 0, !.hasMore = TRUE,
                !.loadingMore = TRUE,
                !.requests = @ \cup {PageRequest(0, TRUE, TRUE, filters, FALSE)},
                !.changes = @ + 1 ]
         ELSE [listPage EXCEPT !.filters = filters, !.changes = @ + 1]
    /\ UNCHANGED <<storage, pipeline, exportDialog, statusView>>

\* loadCreators from its response on, for a response that is ok
Loaded(lp, r) ==
    LET data == SearchRows(r.filters, r.pageNum * PageSize) IN
    IF data = <<>>
    THEN [ lp EXCEPT !.hasMore = FALSE, !.totalCount = 0,
                     !.items = IF r.isNewFilter THEN <<>> ELSE @ ]
    ELSE [ lp EXCEPT !.totalCount = ResponseTotal(r.filters, data),
                     !.items = IF r.replace \/ r.isNewFilter THEN data ELSE @ \o data,
                     !.hasMore = Len(data) = PageSize ]

\* The response to request r arrives: the try block or the catch, the finally,
\* and for the mount's request the then() of the mount effect
PageResponds(r, ok) ==
    /\ r \in listPage.requests
    /\ LET after == IF ok THEN Loaded(listPage, r) ELSE listPage IN
       listPage' =
         [ after EXCEPT
           !.loadingMore = FALSE,
           !.requests = @ \ {r},
           !.initialLoadDone = @ \/ r.initial,
           !.loading = @ /\ ~r.initial ]
    /\ UNCHANGED <<storage, pipeline, exportDialog, statusView>>

-----------------------------------------------------------------------------
(* Callers of firecrawl_block_domain *)

\* One call of firecrawl_block_domain: a single INSERT ... ON CONFLICT
BlockDomain(args) ==
    /\ clock < MaxClock
    /\ clock' = clock + 1
    /\ firecrawl_blocked_domains' =
         firecrawl_block_domain(firecrawl_blocked_domains, args, clock + 1)
    /\ UNCHANGED <<creators, projects, creator_outreach, call, req, workers, merged>>
    /\ UNCHANGED <<firecrawl_accounts, pipeline_state, run>>
    /\ UNCHANGED ui

-----------------------------------------------------------------------------

Next ==
    \/ CallCreators
    \/ CallProjects
    \/ CallOutreach
    \/ CreatorsStatement
    \/ ProjectsStatement
    \/ OutreachStatement
    \/ PostSelect
    \/ PostUpdate
    \/ PostInsert

Spec == Init /\ [][Next]_vars

\* Extraction runs: the workers and the merges of their results
NextRuns ==
    \/ \E w \in WorkerIds, c \in CreatorIds : WorkerStart(w, c)
    \/ \E w \in WorkerIds, outcome \in Outcomes : WorkerMerge(w, outcome)
    \/ OutreachStatement

SpecRuns == Init /\ [][NextRuns]_vars

\* The blocklist under arbitrary callers
NextBlocklist == \E args \in BlockCalls : BlockDomain(args)

SpecBlocklist == Init /\ [][NextBlocklist]_vars

\* An extraction run after another, with the sessions that write pipeline_state
NextPipeline ==
    \/ SeedState
    \/ \E id \in StateIds : InsertState(id)
    \/ \E dry \in BOOLEAN : LoadWatermark(dry)
    \/ ProfileChange
    \/ Select
    \/ Dispatch
    \/ \E c \in CreatorIds : StartItem(c)
    \/ \E c \in CreatorIds : Acquire(c)
    \/ \E c \in CreatorIds, response \in Responses : ServiceCall(c, response)
    \/ HandToMerger
    \/ Withhold
    \/ CommitWatermark

SpecPipeline == InitPipeline /\ [][NextPipeline]_vars

\* The state row a completed run at time 0 left behind
EarlierWatermark ==
    [ PipelineStateDefaults(0) EXCEPT !.last_run_at = V(0), !.last_contact_check_at = V(0) ]

InitWatermark ==
    /\ creators = RunCreators
    /\ projects = InitProjects
    /\ creator_outreach \in {<<>>, Put(<<>>, 1, WorkedRow)}
    /\ clock = 0
    /\ call = NoCall
    /\ req = NoRequest
    /\ workers = [w \in WorkerIds |-> IdleWorker]
    /\ merged = [c \in CreatorIds |-> [count |-> StoredAttempts(Tables, c), others |-> FALSE]]
    /\ firecrawl_blocked_domains = <<>>
    /\ firecrawl_accounts = InitAccounts
    /\ pipeline_state \in {<<>>, Put(<<>>, 1, EarlierWatermark)}
    /\ run = NoRun
    /\ exportDialog = ClosedDialog
    /\ listPage = MountedPage
    /\ statusView = NoView

\* Runs that may be cut short by their deadline, with a service that answers
NextWatermark ==
    \/ LoadWatermark(FALSE)
    \/ Select
    \/ Dispatch
    \/ Deadline
    \/ \E c \in CreatorIds : StartItem(c)
    \/ \E c \in CreatorIds : Acquire(c)
    \/ \E c \in CreatorIds : ServiceCall(c, "found")
    \/ HandToMerger
    \/ CommitWatermark

SpecWatermark == InitWatermark /\ [][NextWatermark]_vars

\* A visitor on the website
NextWebsite ==
    \/ handleExport
    \/ handleClose
    \/ performExport
    \/ \E ok \in BOOLEAN, n \in ExportSizes : ExportResponds(ok, n)
    \/ LoadMore
    \/ \E filters \in FilterIds : SetFilters(filters)
    \/ \E r \in listPage.requests, ok \in BOOLEAN : PageResponds(r, ok)

SpecWebsite == Init /\ [][NextWebsite]_vars

-----------------------------------------------------------------------------
(* Website: the views that change a creator's outreach status *)

ListViews == {"creators-grid", "creators-table", "projects-grid", "projects-table"}
DetailViews == {"creator-detail", "project-detail"}
Views == ListViews \cup DetailViews

\* The statuses the user picks in the Select
StatusChoices == {"contacted", "declined"}

\* The outreach_status stored for creator c; NULL without a row
StoredStatus(T, c) ==
    IF c \in DOMAIN T.creator_outreach THEN T.creator_outreach[c].outreach_status ELSE NULL

\* value={outreach?.outreach_status || 'not_contacted'}
Displayed(outreach) == IF outreach = NULL THEN "not_contacted" ELSE outreach[1]

\* The view as loaded from the server: it holds the creator's outreach record,
\* null when there is none
OpenedView(view, T) ==
    [ view |-> view, outreach |-> StoredStatus(T, 1), pc |-> "idle",
      method |-> "", body |-> <<>> ]

\* The detail pages render the Select only when they hold an outreach record
SelectRendered(sv) == sv.view \in DetailViews => sv.outreach # NULL

\* The local update made before the request is sent: the creators page makes
\* a record when there is none, the projects page and the detail pages keep null
LocalUpdate(view, outreach, newStatus) ==
    IF view \in {"creators-grid", "creators-table"} THEN V(newStatus)
    ELSE IF outreach # NULL THEN V(newStatus) ELSE NULL

\* The request each view sends
ViewMethod(view) == IF view = "creators-table" THEN "PATCH" ELSE "POST"
ViewBody(view, newStatus) ==
    IF view = "creators-table"
    THEN [creatorId |-> 1, outreachStatus |-> newStatus]
    ELSE [creatorId |-> 1, status |-> newStatus]

\* The methods the route exports; any other method is answered with 405
RouteMethods == {"POST"}
MethodNotAllowed == 405

\* catch: the detail pages reload, the lists only alert
ReloadsOnError(view) == view \in DetailViews

\* After the catch block of handleStatusChange
AfterFailure(sv, T) ==
    IF ReloadsOnError(sv.view) THEN [sv EXCEPT !.outreach = StoredStatus(T, 1)] ELSE sv

InitStatus ==
    /\ creators = InitCreators
    /\ projects = InitProjects
    /\ creator_outreach \in {<<>>, Put(<<>>, 1, WorkedRow)}
    /\ clock = 0
    /\ call = NoCall
    /\ req = NoRequest
    /\ workers = [w \in WorkerIds |-> IdleWorker]
    /\ merged = [c \in CreatorIds |-> [count |-> StoredAttempts(Tables, c), others |-> FALSE]]
    /\ firecrawl_blocked_domains = <<>>
    /\ firecrawl_accounts = InitAccounts
    /\ pipeline_state = <<>>
    /\ run = NoRun
    /\ exportDialog = ClosedDialog
    /\ listPage = MountedPage
    /\ statusView \in { OpenedView(view, Tables) : view \in Views }

\* handleStatusChange up to the fetch
ChangeStatus(newStatus) ==
    /\ statusView.pc \in {"idle", "finished"}
    /\ SelectRendered(statusView)
    /\ statusView' =
         [ statusView EXCEPT
             !.outreach = LocalUpdate(statusView.view, @, newStatus),
             !.pc = "sent",
             !.method = ViewMethod(statusView.view),
             !.body = ViewBody(statusView.view, newStatus) ]
    /\ UNCHANGED <<storage, pipeline, exportDialog, listPage>>

\* fetch rejects (the request does not reach the server): the catch block
FetchFails ==
    /\ statusView.pc = "sent"
    /\ statusView' = [AfterFailure(statusView, Tables) EXCEPT !.pc = "finished"]
    /\ UNCHANGED <<storage, pipeline, exportDialog, listPage>>

\* The request reaches the route: a method it does not export is answered at
\* once, POST runs up to the maybeSingle() select
RouteDispatch ==
    /\ statusView.pc = "sent"
    /\ req.pc \in {"idle", "done"}
    /\ req' = IF statusView.method \notin RouteMethods
              THEN [ pc |-> "done", body |-> statusView.body, existing |-> FALSE,
                     status |-> MethodNotAllowed ]
              ELSE IF MissingFields(statusView.body)
              THEN [pc |-> "done", body |-> statusView.body, existing |-> FALSE, status |-> 400]
              ELSE [ pc |-> "write", body |-> statusView.body,
                     existing |-> statusView.body.creatorId \in DOMAIN creator_outreach,
                     status |-> 0 ]
    /\ statusView' = [statusView EXCEPT !.pc = "waiting"]
    /\ UNCHANGED <<creators, projects, creator_outreach, clock, call, workers, merged>>
    /\ UNCHANGED <<pipeline, exportDialog, listPage>>

\* The response arrives: if (!response.ok) throw, catch, finally
ViewResponds ==
    /\ statusView.pc = "waiting"
    /\ req.pc = "done"
    /\ statusView' =
         [ (IF req.status = 200 THEN statusView ELSE AfterFailure(statusView, Tables))
             EXCEPT !.pc = "finished" ]
    /\ UNCHANGED <<storage, pipeline, exportDialog, listPage>>

NextStatus ==
    \/ \E newStatus \in StatusChoices : ChangeStatus(newStatus)
    \/ FetchFails
    \/ RouteDispatch
    \/ PostUpdate
    \/ PostInsert
    \/ ViewResponds

SpecStatus == InitStatus /\ [][NextStatus]_vars


-----------------------------------------------------------------------------
(* Properties *)

\* The payload the running call is at, and the creator it names
Payload == call.data[call.i]
PayloadId == CastInt(Arrow(Payload, "creator_id"))[1]

\* This step is sync_creator_outreach_bulk's INSERT ... ON CONFLICT going
\* through for a creator that already has a creator_outreach row
MergesExisting ==
    /\ OutreachStatement
    /\ call.pc = "insert"
    /\ call'.failed = call.failed
    /\ PayloadId \in DOMAIN creator_outreach

\* The last call was sync_creator_outreach_bulk with this batch, it has
\* returned, and it began with creator 1's row being the worked row
SyncedWorkedRow(data) ==
    /\ call.fn = "sync_creator_outreach_bulk"
    /\ call.pc = "done"
    /\ call.data = data
    /\ call.start.creator_outreach = Put(<<>>, 1, WorkedRow)
    /\ call.rewritten >= 1

\* C1: a statement of sync_creator_outreach_bulk leaves every stored
\* outreach_status other than 'not_contacted' as it was, whatever status the
\* payload carries and however the endpoint's writes interleave.
C1_SyncKeepsHumanStatus ==
    [][ OutreachStatement =>
          \A c \in DOMAIN creator_outreach :
             creator_outreach[c].outreach_status # V("not_contacted")
                => creator_outreach'[c].outreach_status = creator_outreach[c].outreach_status
      ]_vars

\* C1 witness: a payload carrying 'contacted' was merged into a row whose
\* status was 'partnership', and the row still says 'partnership'.
C1_Witness ==
    /\ SyncedWorkedRow(<<OutreachManual("1")>>)
    /\ creator_outreach[1].outreach_status = V("partnership")

\* C2: merging a payload that omits has_contact_form, contact_status or
\* contact_attempts (or carries null) into an existing row leaves the stored
\* value of that column unchanged.
C2_OmittedDefaultedColumnsKept ==
    [][ MergesExisting =>
          \A col \in {"has_contact_form", "contact_status", "contact_attempts"} :
             Arrow(Payload, col) = NULL
                => creator_outreach'[PayloadId][col] = creator_outreach[PayloadId][col]
      ]_vars

\* The columns the INSERT fills with outreach->>'col' and the conflict
\* clause with COALESCE(EXCLUDED.col, creator_outreach.col)
TextColumns == {"email", "email_source_url", "contact_form_url", "contact_error", "site_hash"}

\* C3 as claimed: for email, email_source_url, contact_form_url,
\* last_contact_check_at, contact_error and site_hash, merging into an
\* existing row keeps the stored value when the payload omits the column or
\* carries null, and stores the incoming value when it carries a non-null one.
C3_CoalescePreserveAsClaimed ==
    [][ MergesExisting =>
          /\ \A col \in TextColumns \cup {"last_contact_check_at"} :
                Arrow(Payload, col) = NULL
                   => creator_outreach'[PayloadId][col] = creator_outreach[PayloadId][col]
          /\ \A col \in TextColumns :
                Arrow(Payload, col) # NULL
                   => creator_outreach'[PayloadId][col] = Arrow(Payload, col)
          /\ Arrow(Payload, "last_contact_check_at") # NULL
                => creator_outreach'[PayloadId].last_contact_check_at =
                     CastTimestamp(Arrow(Payload, "last_contact_check_at"))
      ]_vars

\* C3 as amended: the same, except that an empty-string
\* last_contact_check_at counts as absent: the stored timestamp is kept.
C3_CoalescePreserve ==
    [][ MergesExisting =>
          /\ \A col \in TextColumns :
                creator_outreach'[PayloadId][col] =
                   IF Arrow(Payload, col) = NULL
                   THEN creator_outreach[PayloadId][col]
                   ELSE Arrow(Payload, col)
          /\ creator_outreach'[PayloadId].last_contact_check_at =
                IF Arrow(Payload, "last_contact_check_at") \in {NULL, V("")}
                THEN creator_outreach[PayloadId].last_contact_check_at
                ELSE CastTimestamp(Arrow(Payload, "last_contact_check_at"))
      ]_vars

\* C3 witness: an email-only result was merged into the row that held a
\* contact_form_url, and the row holds both.
C3_Witness ==
    /\ SyncedWorkedRow(<<OutreachEmail("1")>>)
    /\ creator_outreach[1].contact_form_url = V("https://x.com/contact")
    /\ creator_outreach[1].email = V("a@b.com")

HumanColumns ==
    { "notes", "tags", "first_contacted_at", "last_contacted_at",
      "response_received_at", "priority", "follow_up_date" }

\* C4: merging a payload into an existing row never changes notes, tags,
\* first_contacted_at, last_contacted_at, response_received_at, priority or
\* follow_up_date, whether or not the payload carries them.
C4_HumanColumnsKept ==
    [][ MergesExisting =>
          \A col \in HumanColumns :
             creator_outreach'[PayloadId][col] = creator_outreach[PayloadId][col]
      ]_vars

\* C4 witness: a payload carrying notes, tags, dates, priority and a
\* follow-up date was merged into the worked row, whose own values remain.
C4_Witness ==
    /\ SyncedWorkedRow(<<OutreachManual("1")>>)
    /\ \A col \in HumanColumns : creator_outreach[1][col] = WorkedRow[col]
    /\ creator_outreach[1].notes = V("call Tuesday")
    /\ creator_outreach[1].updated_at # WorkedRow.updated_at

\* C5: every row has has_any_contact = (email is non-empty) OR
\* (has_contact_form = true), an empty-string email counting as not set.
C5_HasAnyContact ==
    \A c \in DOMAIN creator_outreach :
       creator_outreach[c].has_any_contact =
          V( \/ creator_outreach[c].email \notin {NULL, V("")}
             \/ creator_outreach[c].has_contact_form = V(TRUE) )


HashGuarded == {"upsert_creators_bulk", "upsert_projects_bulk"}

\* The table a hash-guarded call writes, and the id its current entity names
GuardedTable == IF call.fn = "upsert_creators_bulk" THEN creators ELSE projects
EntityId == CastInt(Arrow(Payload, "id"))[1]

\* The running call is about to look up an entity whose data_hash is the
\* data_hash stored for its id
SameHash ==
    /\ call.fn \in HashGuarded
    /\ call.pc = "select"
    /\ Arrow(Payload, "id") # NULL
    /\ ValidInt(Arrow(Payload, "id"))
    /\ EntityId \in DOMAIN GuardedTable
    /\ Arrow(Payload, "data_hash") # NULL
    /\ GuardedTable[EntityId].data_hash = Arrow(Payload, "data_hash")

\* C6: an entity of upsert_creators_bulk / upsert_projects_bulk whose
\* data_hash equals the stored one is passed over: no stored row changes, no
\* INSERT follows, and neither v_inserted nor v_updated (nor the errors) moves.
C6_SameHashSkipped ==
    [][ (CreatorsStatement \/ ProjectsStatement) /\ SameHash =>
          /\ creators' = creators
          /\ projects' = projects
          /\ call'.pc # "insert"
          /\ call'.v_inserted = call.v_inserted
          /\ call'.v_updated = call.v_updated
          /\ call'.v_errors = call.v_errors
      ]_vars

\* C6 witness: a creator with a new name but the stored data_hash went
\* through upsert_creators_bulk; the stored name is the old one, counts 0/0.
C6_Witness ==
    /\ call.fn = "upsert_creators_bulk"
    /\ call.pc = "done"
    /\ call.data = <<CreatorRenamed>>
    /\ call.v_total = 1 /\ call.v_inserted = 0 /\ call.v_updated = 0
    /\ creators[1].name = V("Ann")
    /\ creators = call.start.creators

\* A Merger call has returned and no other session has written since it began
Returned == call.fn \in Functions /\ call.pc = "done" /\ call.clean

\* The same batch run again, right after the call returned
Rerun == RunToEnd(NewCall(call.fn, call.data, Tables, clock + 1), Tables)

\* The tables with the updated_at column left out
WithoutUpdatedAt(T) ==
    [ creators |-> [id \in DOMAIN T.creators |-> [T.creators[id] EXCEPT !.updated_at = NULL]],
      projects |-> [id \in DOMAIN T.projects |-> [T.projects[id] EXCEPT !.updated_at = NULL]],
      creator_outreach |->
        [id \in DOMAIN T.creator_outreach |-> [T.creator_outreach[id] EXCEPT !.updated_at = NULL]] ]

\* Every entity of the batch carries a data_hash and no id occurs twice
HashedOnce(data) ==
    \A i \in 1..Len(data) :
       /\ Arrow(data[i], "data_hash") # NULL
       /\ \A j \in 1..Len(data) : j # i => Arrow(data[j], "id") # Arrow(data[i], "id")

RECURSIVE Keep(_, _, _)
Keep(data, failed, i) ==
    IF i > Len(data) THEN <<>>
    ELSE (IF i \in failed THEN <<>> ELSE <<data[i]>>) \o Keep(data, failed, i + 1)

\* The call that returned, run from the same tables on the batch without
\* its failing entities
AsIfAbsent ==
    RunToEnd(NewCall(call.fn, Keep(call.data, call.failed, 1), call.start, call.now),
             call.start)

\* The index of the k-th entity that raised
NthFailed(k) == CHOOSE i \in call.failed : Cardinality({j \in call.failed : j <= i}) = k

ErrorId(entry) ==
    IF "project_id" \in DOMAIN entry THEN entry.project_id ELSE entry.creator_id

IdKey == IF call.fn = "sync_creator_outreach_bulk" THEN "creator_id" ELSE "id"

\* C8: when a Merger call has returned, the tables are what the call would
\* have left had the failing entities not been in the batch (and none of the
\* others then fails), and errors lists, in order, each failing entity's id
\* with the error it raised.
C8_FailureIsolated ==
    Returned =>
       /\ AsIfAbsent.T = Tables
       /\ AsIfAbsent.call.v_errors = <<>>
       /\ AsIfAbsent.call.v_inserted = call.v_inserted
       /\ AsIfAbsent.call.v_updated = call.v_updated
       /\ Len(call.v_errors) = Cardinality(call.failed)
       /\ \A k \in 1..Len(call.v_errors) :
             /\ ErrorId(call.v_errors[k]) = Arrow(call.data[NthFailed(k)], IdKey)
             /\ call.v_errors[k].error # NoError

\* C8 witness: the second of three payloads had a bad cast; the first and
\* the third, both for creator 2, were written, and the call returned.
C8_Witness ==
    /\ Returned
    /\ call.data = <<OutreachEmail("2"), OutreachBadFlag("1"), OutreachForm("2")>>
    /\ call.failed = {2}
    /\ call.v_errors = <<[creator_id |-> V("1"), error |-> InvalidText]>>
    /\ call.v_inserted = 1 /\ call.v_updated = 1 /\ call.v_total = 3
    /\ creator_outreach[2].email = V("a@b.com")
    /\ creator_outreach[2].contact_form_url = V("https://y.com/contact")
    /\ 1 \in DOMAIN creator_outreach => creator_outreach[1].email # V("z@z.com")

\* C9: a returned Merger call reports total_count = the number of entities,
\* one errors entry per failed entity, inserted_count = the rows the call
\* created, updated_count = the existing rows it rewrote, and no entity
\* counted twice.
C9_CountsAsClaimed ==
    call.fn \in Functions /\ call.pc = "done" =>
       /\ call.v_total = Len(call.data)
       /\ Len(call.v_errors) = Cardinality(call.failed)
       /\ call.v_inserted + call.v_updated + Len(call.v_errors) <= call.v_total
       /\ call.v_inserted = call.created
       /\ call.v_updated = call.rewritten

\* The same counts for the calls no other session wrote during
C9_CountsWhenAlone == Returned => C9_CountsAsClaimed

\* C10: once a worker's result is merged, the stored contact_attempts of a
\* creator whose row only worker results have written equals the number of
\* invocations merged for that creator.
C10_AttemptsCountInvocations ==
    call.pc = "done" =>
       \A c \in DOMAIN creator_outreach :
          ~merged[c].others => creator_outreach[c].contact_attempts = V(merged[c].count)

\* C11: an incoming empty string in email, email_source_url,
\* contact_form_url, contact_error or site_hash counts as absent: merging it
\* into an existing row never replaces a stored non-empty value.
C11_EmptyTextTreatedAsAbsent ==
    [][ MergesExisting =>
          \A col \in TextColumns :
             /\ Arrow(Payload, col) = V("")
             /\ creator_outreach[PayloadId][col] \notin {NULL, V("")}
             => creator_outreach'[PayloadId][col] = creator_outreach[PayloadId][col]
      ]_vars

\* The columns of the blocklist a caller sets
Entries(blocked) ==
    [ d \in DOMAIN blocked |->
        [reason |-> blocked[d].reason, source |-> blocked[d].source, notes |-> blocked[d].notes] ]

\* C12: after every firecrawl_block_domain call the blocklist holds at most
\* one entry per domain compared case-insensitively, and the same call made
\* again leaves every entry's domain, reason, source and notes as they are.
C12_BlockIdempotent ==
    [][ \A args \in BlockCalls :
          BlockDomain(args) =>
             /\ \A a, b \in DOMAIN firecrawl_blocked_domains' : SameDomain(a, b) => a = b
             /\ Entries(firecrawl_block_domain(firecrawl_blocked_domains', args, clock' + 1))
                  = Entries(firecrawl_blocked_domains')
      ]_vars

\* C12 witness: a domain was blocked twice in different spellings; there is
\* one entry, under a.b, holding the later reason and notes and the source
\* of the first call (the second passed a null source).
C12_Witness ==
    /\ DOMAIN firecrawl_blocked_domains = {Domainab}
    /\ firecrawl_blocked_domains[Domainab].reason = V("unsupported content")
    /\ firecrawl_blocked_domains[Domainab].source = V("firecrawl")
    /\ firecrawl_blocked_domains[Domainab].notes = V("402")
    /\ firecrawl_blocked_domains[Domainab].created_at = V(1)
    /\ firecrawl_blocked_domains[Domainab].updated_at = V(2)

\* The endpoint's write went through and the request is answered with 200
PostSucceeds == (PostUpdate \/ PostInsert) /\ req'.status = 200

\* C13: a POST answered with 200 leaves a row for the posted creator whose
\* outreach_status is the posted status (outreachStatus, else status); on
\* an existing row only outreach_status and updated_at differ, without a row
\* exactly one row is created, holding the column defaults; no other
\* creator's row changes.
C13_PostWritesStatusOnly ==
    [][ PostSucceeds =>
          LET id == req.body.creatorId
              posted == V(NewStatus(req.body))
          IN  /\ DOMAIN creator_outreach' = DOMAIN creator_outreach \cup {id}
              /\ creator_outreach'[id].outreach_status = posted
              /\ \A c \in DOMAIN creator_outreach \ {id} :
                    creator_outreach'[c] = creator_outreach[c]
              /\ IF id \in DOMAIN creator_outreach
                 THEN \A col \in DOMAIN creator_outreach[id] \ {"outreach_status", "updated_at"} :
                         creator_outreach'[id][col] = creator_outreach[id][col]
                 ELSE creator_outreach'[id] =
                         [ OutreachDefaults(clock') EXCEPT
                           !.outreach_status = posted, !.has_any_contact = V(FALSE) ]
      ]_vars

\* C13 witness: 'contacted' was posted for creator 1, whose worked row keeps
\* its notes, tags and extraction state and has the new status.
C13_Witness ==
    /\ req.pc = "done" /\ req.status = 200 /\ req.existing
    /\ req.body = [creatorId |-> 1, status |-> "contacted"]
    /\ creator_outreach[1].outreach_status = V("contacted")
    /\ creator_outreach[1].notes = V("call Tuesday")
    /\ creator_outreach[1].contact_status = V("completed")
    /\ creator_outreach[1].updated_at # WorkedRow.updated_at

\* A step of loadWatermark(): a run enters "loaded"
LoadsWatermark == run.pc # "loaded" /\ run'.pc = "loaded"

\* C14: pipeline_state never holds a row other than id = 1 and keeps that
\* row once it is there; no insert adds a second row; loading the watermark
\* when the row is absent leaves exactly the default row and the run loaded
C14_SingletonState ==
    [][ /\ DOMAIN pipeline_state' \subseteq {1}
        /\ (1 \in DOMAIN pipeline_state => 1 \in DOMAIN pipeline_state')
        /\ (LoadsWatermark =>
              /\ DOMAIN pipeline_state' = {1}
              /\ (1 \notin DOMAIN pipeline_state =>
                    pipeline_state'[1] = PipelineStateDefaults(clock')) ) ]_vars

\* The watermark was loaded with the row absent, and the load created it
C14_Witness ==
    /\ run.pc = "loaded"
    /\ DOMAIN pipeline_state = {1}
    /\ pipeline_state[1] = PipelineStateDefaults(1)
    /\ clock = 1

\* A step in which acquire() returns a credential to the worker of creator c
Acquired(c) ==
    /\ c \in DOMAIN run.items
    /\ c \in DOMAIN run'.items
    /\ run.items[c].pc = "acquire"
    /\ run'.items[c].pc = "call"

\* Another worker holds credential cred, acquired and neither reported nor done
HeldByOther(c, cred) ==
    \E d \in DOMAIN run.items \ {c} :
       run.items[d].pc = "call" /\ run.items[d].cred = cred

\* No acquire() returns a credential that is not active, and an exhausted
\* credential stays exhausted
ExhaustedNeverReturned ==
    /\ \A c \in CreatorIds :
          Acquired(c) => firecrawl_accounts[run'.items[c].cred].status = V("active")
    /\ \A id \in DOMAIN firecrawl_accounts :
          firecrawl_accounts[id].status = V("exhausted")
             => firecrawl_accounts'[id].status = V("exhausted")

AcquireFails(c) ==
    /\ c \in DOMAIN run.items
    /\ run.items[c].pc = "acquire"
    /\ ActiveAccounts(firecrawl_accounts) = {}
    /\ (c \in DOMAIN run'.items => run'.items[c] # run.items[c])

\* A step that hands the batch in flight to the Merger
HandsOver == run'.handed # run.handed /\ run.handed \subseteq run'.handed

\* C16: when acquire() finds no active credential only that item fails, with
\* outcome error and 'credentials exhausted', every other item and the run
\* stay as they are; the Merger records the item with contact_status = 'error'
\* and contact_error = 'credentials exhausted'; a run that has dispatched a
\* batch is never aborted
C16_PoolExhaustedFailsItemOnly ==
    [][ /\ \A c \in CreatorIds :
              AcquireFails(c) =>
                 /\ DOMAIN run'.items = DOMAIN run.items
                 /\ run'.items[c] = Finish(run.items[c], "error", "credentials exhausted")
                 /\ \A d \in DOMAIN run.items \ {c} : run'.items[d] = run.items[d]
                 /\ run'.pc = "running"
        /\ \A c \in CreatorIds :
              HandsOver /\ c \in DOMAIN run.items
                        /\ run.items[c].reason = "credentials exhausted" =>
                 /\ c \in DOMAIN creator_outreach'
                 /\ creator_outreach'[c].contact_status = V("error")
                 /\ creator_outreach'[c].contact_error = V("credentials exhausted")
        /\ (run'.pc = "aborted" => run'.k = 0) ]_vars

\* A run has ended, not aborted: both credentials were exhausted, creator 2
\* completed, creator 3 failed in acquire() and is recorded as such
C16_Witness ==
    /\ run.pc = "done"
    /\ ~run.dryRun
    /\ \A id \in DOMAIN firecrawl_accounts : firecrawl_accounts[id].status = V("exhausted")
    /\ DOMAIN run.finished = {2, 3}
    /\ run.finished[2].outcome = "completed"
    /\ run.finished[3] = [outcome |-> "error", reason |-> "credentials exhausted"]
    /\ creator_outreach[2].contact_status = V("completed")
    /\ creator_outreach[3].contact_status = V("error")
    /\ creator_outreach[3].contact_error = V("credentials exhausted")

\* A step in which a worker is given creator c
Given(c) ==
    /\ c \in DOMAIN run.items
    /\ c \in DOMAIN run'.items
    /\ run.items[c].pc = "queued"
    /\ run'.items[c].pc # "queued"

\* C17: a worker given a creator whose site's domain is on the blocklist, in
\* whatever case, ends at once with outcome 'blocked' and the stored reason,
\* and has made no call to the external service
C17_BlockedShortCircuit ==
    [][ \A c \in CreatorIds :
          \A d \in DOMAIN firecrawl_blocked_domains :
             Given(c) /\ SameDomain(d, run.items[c].site) =>
                /\ run'.items[c].pc = "done"
                /\ run'.items[c].outcome = "blocked"
                /\ V(run'.items[c].reason) = firecrawl_blocked_domains[d].reason
                /\ run'.items[c].calls = 0
                /\ run'.items[c].cred = 0 ]_vars

\* Creator 1, whose site is spelled A.b, ended as blocked without a call
\* because a.b was on the blocklist
C17_Witness ==
    /\ 1 \in DOMAIN run.items
    /\ run.items[1].site = DomainAb
    /\ run.items[1].wasBlocked
    /\ run.items[1].pc = "done"
    /\ run.items[1].outcome = "blocked"
    /\ run.items[1].reason = "unsupported content"
    /\ run.items[1].calls = 0
    /\ Domainab \in DOMAIN firecrawl_blocked_domains

\* A step in which the selector produces the candidates of a run
Selects == run.pc = "loaded" /\ run'.pc # "loaded"

\* Creator c has a row with contact_status 'completed' whose site_hash is the
\* hash of c's current site
CompletedUnchanged(c, sites) ==
    /\ c \in DOMAIN creator_outreach
    /\ creator_outreach[c].contact_status = V("completed")
    /\ creator_outreach[c].site_hash = V(SiteHash(sites[c]))

Merged(j) ==
    /\ j \in run.handed
    /\ \A c \in Range(Batch(run.candidates, j)) : c \in DOMAIN creator_outreach

\* C19 as stated: while batch k is out, every earlier batch of the run has
\* been handed to the Merger
C19_MergedBeforeNextBatch ==
    run.pc = "running" => \A j \in 1..(run.k - 1) : Merged(j)

\* C19 amended: outside dryRun mode every earlier batch has been handed to the
\* Merger while batch k is out; in dryRun mode every earlier batch has been
\* withheld and none handed over
C19_SettledBeforeNextBatch ==
    run.pc = "running" =>
       /\ ~run.dryRun => \A j \in 1..(run.k - 1) : Merged(j)
       /\ run.dryRun => run.handed = {} /\ \A j \in 1..(run.k - 1) : j \in run.withheld

\* An item of the second batch has started, the first batch being merged
C19_Witness ==
    /\ run.pc = "running"
    /\ ~run.dryRun
    /\ run.k = 2
    /\ Merged(1)
    /\ \E c \in DOMAIN run.items : run.items[c].pc # "queued"

\* A step in which the batch in flight is withheld from the Merger
Withheld == run'.withheld # run.withheld

\* C20: no step of a dry run changes creator_outreach or hands a batch to the
\* Merger, and a batch is withheld only when each of its workers has run to
\* its outcome, with a call to the external service behind every outcome
\* 'completed' or 'not_found'
C20_DryRunWritesNothing ==
    [][ /\ run'.dryRun =>
              /\ creator_outreach' = creator_outreach
              /\ run'.handed = {}
        /\ Withheld =>
              /\ run.dryRun
              /\ \A c \in DOMAIN run.items :
                    /\ run.items[c].pc = "done"
                    /\ run.items[c].outcome \in {"completed", "not_found"}
                          => run.items[c].calls >= 1 ]_vars

\* A dry run over three creators has ended: both batches were withheld, the
\* workers reached their outcomes, and creator_outreach is still empty
C20_Witness ==
    /\ run.pc = "done"
    /\ run.dryRun
    /\ run.withheld = {1, 2}
    /\ DOMAIN run.finished = {1, 2, 3}
    /\ \E c \in DOMAIN run.finished : run.finished[c].outcome = "completed"
    /\ creator_outreach = <<>>

\* A step of commitWatermark()
Commits == run.pc = "commit" /\ run'.pc = "done"

HashDiffers ==
    /\ call.fn \in {"upsert_creators_bulk", "upsert_projects_bulk"}
    /\ call.pc = "select"
    /\ Arrow(Payload, "id") # NULL
    /\ ValidInt(Arrow(Payload, "id"))
    /\ \/ EntityId \notin DOMAIN GuardedTable
       \/ GuardedTable[EntityId].data_hash = NULL
       \/ GuardedTable[EntityId].data_hash # Arrow(Payload, "data_hash")

\* The guarded table after the step
GuardedTableAfter == IF call.fn = "upsert_creators_bulk" THEN creators' ELSE projects'

\* C22: an entity of upsert_creators_bulk / upsert_projects_bulk that is new,
\* or whose stored data_hash is null or differs from the incoming one (an
\* absent incoming data_hash included), goes on to the INSERT; an INSERT that
\* raises nothing leaves the incoming name and data_hash in the stored row and
\* counts the entity as inserted or updated
C22_DifferingHashWritten ==
    [][ (CreatorsStatement \/ ProjectsStatement) =>
          /\ HashDiffers => call'.pc = "insert"
          /\ call.pc = "insert" /\ call'.failed = call.failed =>
                /\ GuardedTableAfter[EntityId].name = Arrow(Payload, "name")
                /\ GuardedTableAfter[EntityId].data_hash = Arrow(Payload, "data_hash")
                /\ call'.v_inserted + call'.v_updated
                      = call.v_inserted + call.v_updated + 1
      ]_vars

\* The caller supplies a value for parameter k
Supplied(args, k) == k \in DOMAIN args /\ args[k] # NULL

\* The entry the call is about, when its domain is on the blocklist already
ListedDomain(args) == lower(args.p_domain[1])

CallsListed(args) ==
    /\ BlockDomain(args)
    /\ args.p_domain # NULL
    /\ Len(trim(args.p_domain[1])) > 0
    /\ ListedDomain(args) \in DOMAIN firecrawl_blocked_domains

\* C23: a call of firecrawl_block_domain for a domain already on the
\* blocklist leaves each of reason, source and notes that the caller does
\* not supply as stored, and sets each supplied one to the supplied value
C23_UnsuppliedKept ==
    [][ \A args \in BlockCalls :
          CallsListed(args) =>
             LET old == firecrawl_blocked_domains[ListedDomain(args)]
                 new == firecrawl_blocked_domains'[ListedDomain(args)]
             IN  /\ new.reason = IF Supplied(args, "p_reason") THEN args.p_reason ELSE old.reason
                 /\ new.source = IF Supplied(args, "p_source") THEN args.p_source ELSE old.source
                 /\ new.notes = IF Supplied(args, "p_notes") THEN args.p_notes ELSE old.notes
      ]_vars

\* The moves of the export status the dialog allows
ExportMoves ==
    { <<"idle", "confirming">>, <<"confirming", "exporting">>,
      <<"exporting", "success">>, <<"exporting", "error">>, <<"error", "exporting">> }

\* C24: while the status is 'exporting' the dialog stays open and no export
\* request is started, at most one is ever in flight; the status only moves
\* idle -> confirming -> exporting -> success or error, error -> exporting,
\* and to idle with the dialog closing
C24_ExportStatusMoves ==
    [][ /\ exportDialog.exportStatus = "exporting" =>
              /\ exportDialog'.exportDialogOpen
              /\ exportDialog'.inFlight <= exportDialog.inFlight
        /\ exportDialog'.inFlight <= 1
        /\ \/ exportDialog'.exportStatus = exportDialog.exportStatus
           \/ <<exportDialog.exportStatus, exportDialog'.exportStatus>> \in ExportMoves
           \/ /\ exportDialog'.exportStatus = "idle"
              /\ exportDialog.exportDialogOpen
              /\ ~exportDialog'.exportDialogOpen ]_vars

\* An export is running as the retry of one that failed
C24_Witness ==
    /\ exportDialog.exportStatus = "exporting"
    /\ exportDialog.exportDialogOpen
    /\ exportDialog.exporting
    /\ exportDialog.inFlight = 1
    /\ exportDialog.exportError # ""

\* Result pages 0..k of the filters, one after the other
RECURSIVE PagesUpTo(_, _)
PagesUpTo(filters, k) ==
    IF k < 0 THEN <<>>
    ELSE PagesUpTo(filters, k - 1) \o SearchRows(filters, k * PageSize)

\* C25: as long as the filters were never changed, the displayed list is the
\* concatenation of result pages 0..k for some k (none yet: the empty list)
C25_ListIsPagePrefix ==
    listPage.changes = 0 =>
       \E k \in -1..MaxPage : listPage.items = PagesUpTo(listPage.filters, k)

\* C26: every row of the displayed list was fetched under the applied filters
C26_NoRowsOfPreviousFilters ==
    \A i \in 1..Len(listPage.items) : listPage.items[i][1] = listPage.filters

\* An ok response to a request made under the applied filters is processed
ProcessesResponse(r) ==
    /\ r \in listPage.requests
    /\ r.filters = listPage.filters
    /\ PageResponds(r, TRUE)

\* C30: after every processed page response for the applied filters the total
\* shown is the number of rows that match them
C30_TotalIsMatchCount ==
    [][ \A r \in listPage.requests :
          ProcessesResponse(r) => listPage'.totalCount = MatchCount(listPage.filters) ]_vars

\* C27: after a status change made in a view has finished, whether its request
\* succeeded or failed, the status the view displays for the creator is the
\* outreach_status stored for that creator.
C27_DisplayedIsStored ==
    statusView.pc = "finished" =>
        Displayed(statusView.outreach) = Displayed(StoredStatus(Tables, 1))

\* C28: after sync_creator_outreach_bulk calls whose records are each
\* self-consistent (a contact_form_url only together with has_contact_form =
\* true), every stored row with a non-null contact_form_url has
\* has_contact_form = true: a step of a call of self-consistent records that
\* starts from such rows ends in such rows.
SelfConsistent(outreach) ==
    Arrow(outreach, "contact_form_url") # NULL
        => Arrow(outreach, "has_contact_form") = V("true")
FormRowsConsistent(rows) ==
    \A c \in DOMAIN rows :
        rows[c].contact_form_url # NULL => rows[c].has_contact_form = V(TRUE)
C28_FormUrlImpliesFlag ==
    [][ ( /\ call.fn = "sync_creator_outreach_bulk"
          /\ \A i \in DOMAIN call.data : SelfConsistent(call.data[i])
          /\ FormRowsConsistent(creator_outreach) )
        => FormRowsConsistent(creator_outreach') ]_vars

\* C29: a request to the outreach endpoint for an existing creator that had no
\* CreatorOutreach row when the request looked for one, running concurrently
\* with a sync (or another request) that creates the row, returns success and
\* the creator's one row holds a posted status: the insert branch of such a
\* request answers 200 and leaves the row with the status it posted.
InsertsForCreator == PostInsert /\ req.body.creatorId \in DOMAIN creators
C29_ConcurrentRequestsSucceed ==
    [][ InsertsForCreator =>
          /\ req'.status = 200
          /\ req.body.creatorId \in DOMAIN creator_outreach'
          /\ creator_outreach'[req.body.creatorId].outreach_status = V(NewStatus(req.body))
      ]_vars

====
